---------------------------- MODULE Spec2Model ----------------------------
(***************************************************************************)
(* Model of the IMU service: the bounded five-channel buffer with its      *)
(* validator (src/src/imu_buffer.py) and the message path of the MQTT      *)
(* broker (src/src/mqtt_broker/mqtt_broker.py), the broker's connection    *)
(* session (constructor, transport callbacks, status publisher, signal     *)
(* handler), the buffer under two concurrent callers, and the dictionary   *)
(* that get_data hands out.                                                *)
(*                                                                         *)
(* JSON values are tagged records, so that Python's isinstance, truthiness *)
(* and dict operations are computed on them as the interpreter does.  A    *)
(* dict is the sequence of its (key, value) pairs in insertion order: the  *)
(* order in which Python iterates it.                                      *)
(***************************************************************************)
EXTENDS Integers, Sequences, FiniteSets, TLC

VARIABLES
    max_size,   \* IMUBuffer.max_size, fixed at construction
    buf,        \* the five channel lists of IMUBuffer, by attribute name
    prev,       \* history variable: buf before the last call
    last,       \* history variable: the last call, its arguments and outcome
    history,    \* history variable: the inputs offered so far (entries pushed,
                \* payload elements delivered), in order
    connection_established,   \* MQTTBroker.connection_established
    service_running,          \* MQTTBroker.service_running
    current_recording_state,  \* MQTTBroker.current_recording_state
    client,     \* the transport behind MQTTBroker.client: what is_connected()
                \* returns, whether its receive loop runs, the calls of connect
                \* (with the arguments of the last) and of loop_start
    pc,         \* where the main thread stands in MQTTBroker.__init__
    polls,      \* sleeps taken so far by the wait loop of __init__
    workers,    \* the threads calling into the buffer: position and locals
    snapshot,   \* the dictionary a caller got from get_data or from
                \* get_current_buffer_size
    handler     \* IMUMessageHandler.__init__: its position, the results of
                \* the health checks of its loop and of its last check

\* the broker's session, the concurrent callers and the reader's dictionary
session == <<connection_established, service_running, current_recording_state,
             client, pc, polls>>
others == <<workers, snapshot, handler>>

vars == <<max_size, buf, prev, last, history, session, others>>

(***************************************************************************)
(* Bounds of the model.                                                    *)
(***************************************************************************)
MaxSize == 2        \* largest configured max_buffer_size explored
MaxPayload == 2     \* longest payload list of one message
MaxDelivered == 3   \* payload elements delivered over a whole run
MaxExtra == 2       \* pushes beyond max_size into the channels of one run
MaxPolls == 2       \* sleeps of the constructor's wait loop until its timeout
MaxStream == 2      \* readings one concurrent worker delivers

(***************************************************************************)
(* JSON values as Python sees them after json.loads.                       *)
(***************************************************************************)
JNull == [k |-> "null"]
JBool(b) == [k |-> "bool", b |-> b]
JInt(n) == [k |-> "int", i |-> n]
JFloat(n) == [k |-> "float", f |-> n]     \* n stands for the float n + 0.5
JStr(s) == [k |-> "str", s |-> s]
JList(items) == [k |-> "list", items |-> items]
JDict(pairs) == [k |-> "dict", pairs |-> pairs]
KV(key, val) == [key |-> key, val |-> val]

Min(S) == CHOOSE m \in S : \A n \in S : m <= n

\* key in d
HasKey(d, key) == \E i \in 1..Len(d.pairs) : d.pairs[i].key = key

\* d.get(key, default)
DictGet(d, key, default) ==
    IF HasKey(d, key)
    THEN d.pairs[CHOOSE i \in 1..Len(d.pairs) : d.pairs[i].key = key].val
    ELSE default

\* bool(v) is False
Falsy(v) ==
    CASE v.k = "null" -> TRUE
      [] v.k = "bool" -> ~v.b
      [] v.k = "int" -> v.i = 0
      [] v.k = "float" -> FALSE      \* the floats of the model are n + 0.5
      [] v.k = "str" -> v.s = ""
      [] v.k = "list" -> v.items = <<>>
      [] v.k = "dict" -> v.pairs = <<>>

\* isinstance(v, (int, float)): bool is a subclass of int
IsIntOrFloat(v) == v.k \in {"int", "float", "bool"}

(***************************************************************************)
(* IMUBuffer                                                               *)
(***************************************************************************)
Channels == {"accelerometer_data_buffer", "gyroscope_data_buffer",
             "gravity_data_buffer", "total_acceleration_data_buffer",
             "orientation_data_buffer"}

EmptyBuffers == [c \in Channels |-> <<>>]

NoError == [err |-> "none", field |-> ""]
ValueError(err, field) == [err |-> err, field |-> field]

RequiredXYZ == <<"x", "y", "z">>
RequiredOrientation == <<"qx", "qy", "qz", "qw", "roll", "pitch", "yaw">>

\* variant with a seeded fault: the first two fields of each table exchanged
required_fields_swapped(name) ==
    IF name = JStr("orientation")
    THEN <<"qy", "qx", "qz", "qw", "roll", "pitch", "yaw">>
    ELSE <<"y", "x", "z">>

required_fields(name) ==
    IF name = JStr("orientation") THEN RequiredOrientation ELSE RequiredXYZ

\* validate_sensor_values: the ValueError it raises, or NoError
validate_sensor_values(values, name) ==
    IF values.k # "dict"
    THEN ValueError("Values must be a JSON object", "")
    ELSE LET req == required_fields(name)
             missing == {i \in 1..Len(req) : ~HasKey(values, req[i])}
             bad == {i \in 1..Len(values.pairs) : ~IsIntOrFloat(values.pairs[i].val)}
         IN  IF missing # {}
             THEN ValueError("Missing required field", req[Min(missing)])
             ELSE IF bad # {}
             THEN ValueError("must be a number", values.pairs[Min(bad)].key)
             ELSE NoError

\* variant with a seeded fault: the capacity test is > instead of >=
add_to_buffer_off_by_one(data, buffer) ==
    IF Len(buffer) > max_size
    THEN IF buffer = <<>>
         THEN [exc |-> "IndexError", buffer |-> buffer]
         ELSE [exc |-> "none", buffer |-> Append(Tail(buffer), data)]
    ELSE [exc |-> "none", buffer |-> Append(buffer, data)]

\* variant with a seeded fault: the newest entry is evicted (pop() instead of pop(0))
add_to_buffer_pop_last(data, buffer) ==
    IF Len(buffer) >= max_size
    THEN IF buffer = <<>>
         THEN [exc |-> "IndexError", buffer |-> buffer]
         ELSE [exc |-> "none",
               buffer |-> Append(SubSeq(buffer, 1, Len(buffer) - 1), data)]
    ELSE [exc |-> "none", buffer |-> Append(buffer, data)]

\* add_to_buffer: the list after the call; pop(0) of an empty list raises IndexError
add_to_buffer(data, buffer) ==
    IF Len(buffer) >= max_size
    THEN IF buffer = <<>>
         THEN [exc |-> "IndexError", buffer |-> buffer]
         ELSE [exc |-> "none", buffer |-> Append(Tail(buffer), data)]
    ELSE [exc |-> "none", buffer |-> Append(buffer, data)]

\* variant with a seeded fault: the entry is added before it is validated
BranchAddFirst(bufs, values, name, ch) ==
    LET r == add_to_buffer(values, bufs[ch])
        v == validate_sensor_values(values, name)
    IN  IF v.err # "none"
        THEN [exc |-> "none", bufs |-> [bufs EXCEPT ![ch] = r.buffer], error |-> v]
        ELSE [exc |-> r.exc, bufs |-> [bufs EXCEPT ![ch] = r.buffer], error |-> NoError]

\* one branch of process_sensor_reading: validate, then add to the channel
Branch(bufs, values, name, ch) ==
    LET v == validate_sensor_values(values, name) IN
    IF v.err # "none"
    THEN [exc |-> "none", bufs |-> bufs, error |-> v]     \* except ValueError: logged
    ELSE LET r == add_to_buffer(values, bufs[ch]) IN
         [exc |-> r.exc, bufs |-> [bufs EXCEPT ![ch] = r.buffer], error |-> NoError]

\* variant with a seeded fault: the gravity branch adds to the gyroscope list
ChannelOfMisrouted(name) ==
    CASE name = JStr("accelerometer") -> "accelerometer_data_buffer"
      [] name = JStr("gyroscope") -> "gyroscope_data_buffer"
      [] name = JStr("gravity") -> "gyroscope_data_buffer"
      [] name = JStr("totalacceleration") -> "total_acceleration_data_buffer"
      [] name = JStr("orientation") -> "orientation_data_buffer"
      [] OTHER -> ""

\* variant with a seeded fault: the gyroscope branch adds to the accelerometer list
ChannelOfOneList(name) ==
    CASE name = JStr("accelerometer") -> "accelerometer_data_buffer"
      [] name = JStr("gyroscope") -> "accelerometer_data_buffer"
      [] name = JStr("gravity") -> "gravity_data_buffer"
      [] name = JStr("totalacceleration") -> "total_acceleration_data_buffer"
      [] name = JStr("orientation") -> "orientation_data_buffer"
      [] OTHER -> ""

\* variant with a seeded fault: a final else branch takes every other name as accelerometer
ChannelOfDefault(name) ==
    CASE name = JStr("accelerometer") -> "accelerometer_data_buffer"
      [] name = JStr("gyroscope") -> "gyroscope_data_buffer"
      [] name = JStr("gravity") -> "gravity_data_buffer"
      [] name = JStr("totalacceleration") -> "total_acceleration_data_buffer"
      [] name = JStr("orientation") -> "orientation_data_buffer"
      [] OTHER -> "accelerometer_data_buffer"

\* the channel process_sensor_reading selects for a sensor name, "" for none
ChannelOf(name) ==
    CASE name = JStr("accelerometer") -> "accelerometer_data_buffer"
      [] name = JStr("gyroscope") -> "gyroscope_data_buffer"
      [] name = JStr("gravity") -> "gravity_data_buffer"
      [] name = JStr("totalacceleration") -> "total_acceleration_data_buffer"
      [] name = JStr("orientation") -> "orientation_data_buffer"
      [] OTHER -> ""

\* process_sensor_reading on the buffers bufs: the buffers after the call, the
\* exception that leaves the call, and the validation error it logged
process_sensor_reading(bufs, reading) ==
    LET name == reading.sensor_name
        values == reading.payload
        ch == ChannelOf(name)
    IN  IF ch = ""
        THEN [exc |-> "none", bufs |-> bufs, error |-> NoError]
        ELSE Branch(bufs, values, name, ch)

\* variant with a seeded fault: the orientation list is not cleared
clear_four_lists(bufs) ==
    [c \in Channels |-> IF c = "orientation_data_buffer" THEN bufs[c] ELSE <<>>]

\* clear
clear(bufs) == [c \in Channels |-> <<>>]

(***************************************************************************)
(* MQTTBroker: the message path                                            *)
(***************************************************************************)
\* config['mqtt']: the address of the broker
MQTT_CONFIG == [broker_host |-> "localhost", broker_port |-> 1883]

\* config['mqtt']['topics']
MQTT_TOPICS ==
    [recording_control |-> "test/recording", data_stream |-> "test/data",
     status |-> "test/status"]

\* variant with a seeded fault: an element without 'name' and 'values' is taken as
\* the value map of an accelerometer reading
formatted_reading_bare_values(sensor_data) ==
    [sensor_name |-> DictGet(sensor_data, "name", JStr("accelerometer")),
     payload |-> DictGet(sensor_data, "values", sensor_data)]

\* the reading handle_imu_data_message formats from one payload element
formatted_reading(sensor_data) ==
    [sensor_name |-> DictGet(sensor_data, "name", JStr("unknown")),
     payload |-> DictGet(sensor_data, "values", JDict(<<>>))]

RECURSIVE DispatchBreakOnError(_, _, _, _)
\* variant with a seeded fault: the loop ends at the first element that is skipped or rejected
DispatchBreakOnError(bufs, items, i, calls) ==
    IF i > Len(items)
    THEN [exc |-> "none", bufs |-> bufs, calls |-> calls]
    ELSE IF items[i].k = "dict"
    THEN LET reading == formatted_reading(items[i])
             r == process_sensor_reading(bufs, reading)
         IN  IF r.exc # "none" \/ r.bufs = bufs
             THEN [exc |-> r.exc, bufs |-> r.bufs, calls |-> Append(calls, reading)]
             ELSE DispatchBreakOnError(r.bufs, items, i + 1, Append(calls, reading))
    ELSE [exc |-> "none", bufs |-> bufs, calls |-> calls]

RECURSIVE DispatchReversed(_, _, _, _)
\* variant with a seeded fault: the payload list is walked from its end
DispatchReversed(bufs, items, i, calls) ==
    IF i > Len(items)
    THEN [exc |-> "none", bufs |-> bufs, calls |-> calls]
    ELSE LET e == items[Len(items) + 1 - i] IN
         IF e.k = "dict"
         THEN LET reading == formatted_reading(e)
                  r == process_sensor_reading(bufs, reading)
              IN  IF r.exc # "none"
                  THEN [exc |-> r.exc, bufs |-> r.bufs, calls |-> Append(calls, reading)]
                  ELSE DispatchReversed(r.bufs, items, i + 1, Append(calls, reading))
         ELSE DispatchReversed(bufs, items, i + 1, calls)

RECURSIVE Dispatch(_, _, _, _)
\* the for loop of handle_imu_data_message from element i on: the buffers after
\* it, the readings passed to process_sensor_reading, and the exception, if any,
\* that ended the loop
Dispatch(bufs, items, i, calls) ==
    IF i > Len(items)
    THEN [exc |-> "none", bufs |-> bufs, calls |-> calls]
    ELSE IF items[i].k = "dict"
    THEN LET reading == formatted_reading(items[i])
             r == process_sensor_reading(bufs, reading)
         IN  IF r.exc # "none"
             THEN [exc |-> r.exc, bufs |-> r.bufs, calls |-> Append(calls, reading)]
             ELSE Dispatch(r.bufs, items, i + 1, Append(calls, reading))
    ELSE Dispatch(bufs, items, i + 1, calls)     \* logged and skipped

\* variant with a seeded fault: the deviceId check does not return
handle_without_device_check(bufs, payload) ==
    IF payload.k # "dict"
    THEN [bufs |-> bufs, calls |-> <<>>, log |-> "Error handling IMU data message"]
    ELSE LET imu_payload == DictGet(payload, "payload", JList(<<>>)) IN
         IF imu_payload.k # "list" \/ Falsy(imu_payload)
         THEN [bufs |-> bufs, calls |-> <<>>,
               log |-> "IMU data payload must be a non-empty array"]
         ELSE LET r == Dispatch(bufs, imu_payload.items, 1, <<>>) IN
              [bufs |-> r.bufs, calls |-> r.calls,
               log |-> IF r.exc # "none" THEN "Error handling IMU data message"
                       ELSE "Received IMU data"]

\* handle_imu_data_message: the buffers after it, the readings it passed to
\* process_sensor_reading, and what it logged last about the message
handle_imu_data_message(bufs, payload) ==
    IF payload.k # "dict"
    THEN \* payload.get raises AttributeError, caught by except Exception
         [bufs |-> bufs, calls |-> <<>>, log |-> "Error handling IMU data message"]
    ELSE LET device_id == DictGet(payload, "deviceId", JNull)
             imu_payload == DictGet(payload, "payload", JList(<<>>))
         IN  IF Falsy(device_id)
             THEN [bufs |-> bufs, calls |-> <<>>,
                   log |-> "IMU data message missing 'deviceId' field"]
             ELSE IF imu_payload.k # "list" \/ Falsy(imu_payload)
             THEN [bufs |-> bufs, calls |-> <<>>,
                   log |-> "IMU data payload must be a non-empty array"]
             ELSE LET r == Dispatch(bufs, imu_payload.items, 1, <<>>) IN
                  [bufs |-> r.bufs, calls |-> r.calls,
                   log |-> IF r.exc # "none" THEN "Error handling IMU data message"
                           ELSE "Received IMU data"]

\* a message body: bytes that json.loads parses to the value json, or rejects
Bytes(json) == [parses |-> TRUE, json |-> json]
NotJson == [parses |-> FALSE, json |-> JNull]

\* variant with a seeded fault: the JSONDecodeError of json.loads is not caught
on_message_decode_error_raised(bufs, msg) ==
    IF ~msg.payload.parses
    THEN [exc |-> "JSONDecodeError", bufs |-> bufs, calls |-> <<>>,
          log |-> "none"]
    ELSE IF msg.topic = MQTT_TOPICS.data_stream
    THEN LET h == handle_imu_data_message(bufs, msg.payload.json) IN
         [exc |-> "none", bufs |-> h.bufs, calls |-> h.calls, log |-> h.log]
    ELSE [exc |-> "none", bufs |-> bufs, calls |-> <<>>,
          log |-> "Received MQTT message"]

\* variant with a seeded fault: the AttributeError of payload.get on a body that is
\* not an object is caught nowhere
on_message_without_catch_all(bufs, msg) ==
    IF ~msg.payload.parses
    THEN [exc |-> "none", bufs |-> bufs, calls |-> <<>>,
          log |-> "Invalid JSON in MQTT message"]
    ELSE IF msg.topic = MQTT_TOPICS.data_stream
    THEN IF msg.payload.json.k # "dict"
         THEN [exc |-> "AttributeError", bufs |-> bufs, calls |-> <<>>,
               log |-> "none"]
         ELSE LET h == handle_imu_data_message(bufs, msg.payload.json) IN
              [exc |-> "none", bufs |-> h.bufs, calls |-> h.calls, log |-> h.log]
    ELSE [exc |-> "none", bufs |-> bufs, calls |-> <<>>,
          log |-> "Received MQTT message"]

\* variant with a seeded fault: the body is processed whatever the topic
on_message_any_topic(bufs, msg) ==
    IF ~msg.payload.parses
    THEN [exc |-> "none", bufs |-> bufs, calls |-> <<>>,
          log |-> "Invalid JSON in MQTT message"]
    ELSE LET h == handle_imu_data_message(bufs, msg.payload.json) IN
         [exc |-> "none", bufs |-> h.bufs, calls |-> h.calls, log |-> h.log]

\* on_message: nothing it raises leaves the callback
on_message(bufs, msg) ==
    IF ~msg.payload.parses
    THEN \* json.loads raises JSONDecodeError, caught and logged
         [exc |-> "none", bufs |-> bufs, calls |-> <<>>,
          log |-> "Invalid JSON in MQTT message"]
    ELSE IF msg.topic = MQTT_TOPICS.data_stream
    THEN LET h == handle_imu_data_message(bufs, msg.payload.json) IN
         [exc |-> "none", bufs |-> h.bufs, calls |-> h.calls, log |-> h.log]
    ELSE [exc |-> "none", bufs |-> bufs, calls |-> <<>>,
          log |-> "Received MQTT message"]

(***************************************************************************)
(* Inputs of the single-caller specification.                              *)
(***************************************************************************)
XYZ(a, b, c) == JDict(<<KV("x", a), KV("y", b), KV("z", c)>>)
Accel1 == XYZ(JFloat(1), JFloat(2), JFloat(3))
Accel2 == XYZ(JInt(2), JInt(3), JInt(4))
Orient1 == JDict(<<KV("qx", JFloat(0)), KV("qy", JFloat(0)), KV("qz", JFloat(0)),
                   KV("qw", JFloat(1)), KV("roll", JInt(0)), KV("pitch", JInt(0)),
                   KV("yaw", JInt(0))>>)

KnownNames == {JStr("accelerometer"), JStr("gyroscope"), JStr("gravity"),
               JStr("totalacceleration"), JStr("orientation")}

\* value maps that pass validation, per sensor name
GoodValues(name) ==
    IF name = JStr("orientation") THEN {Orient1}
    ELSE IF name = JStr("accelerometer") THEN {Accel1, Accel2}
    ELSE {Accel1}

\* values that fail validation: not a mapping, a required field missing,
\* a field that is not a number
NotAMapping == JStr("not a mapping")
MissingY == JDict(<<KV("x", JFloat(1))>>)
StringY == XYZ(JFloat(1), JStr("2.0"), JFloat(3))

BadValues(name) ==
    CASE name = JStr("orientation") ->
           { JList(<<>>),
             JDict(<<KV("qx", JFloat(0)), KV("qy", JFloat(0)), KV("qz", JFloat(0)),
                     KV("qw", JFloat(1)), KV("roll", JInt(0)), KV("yaw", JInt(0))>>),
             JDict(<<KV("qx", JFloat(0)), KV("qy", JFloat(0)), KV("qz", JFloat(0)),
                     KV("qw", JFloat(1)), KV("roll", JInt(0)), KV("pitch", JNull),
                     KV("yaw", JInt(0))>>) }
      [] name = JStr("accelerometer") -> {NotAMapping, MissingY, StringY}
      [] name = JStr("gyroscope") -> {NotAMapping}
      [] name = JStr("gravity") -> {MissingY}
      [] OTHER -> {StringY}

Readings ==
    UNION { { [sensor_name |-> n, payload |-> v] : v \in GoodValues(n) \cup BadValues(n) }
            : n \in KnownNames }
    \cup { [sensor_name |-> JStr("magnetometer"), payload |-> Accel1],
           [sensor_name |-> JStr("unknown"), payload |-> JDict(<<>>)],
           [sensor_name |-> JNull, payload |-> Orient1] }

\* the entry a caller of add_to_buffer pushes into a channel
DirectData(ch) == IF ch = "orientation_data_buffer" THEN Orient1 ELSE Accel1

(***************************************************************************)
(* The buffer driven by a single caller.                                   *)
(***************************************************************************)
\* no broker is constructed, no thread is started, get_data was not called
NoSession ==
    /\ connection_established = FALSE
    /\ service_running = FALSE
    /\ current_recording_state = "idle"
    /\ client = [connected |-> FALSE, loop |-> FALSE, connects |-> 0,
                 connect_args |-> <<>>, loop_starts |-> 0, subscribed |-> {}]
    /\ pc = "connect"
    /\ polls = 0

\* no construction of IMUMessageHandler is under way
NoHandler == [pc |-> "none"]

NoOthers ==
    /\ workers = <<>>
    /\ snapshot = [taken |-> FALSE]
    /\ handler = NoHandler

Init ==
    /\ max_size \in 1..MaxSize
    /\ buf = EmptyBuffers
    /\ prev = EmptyBuffers
    /\ last = [op |-> "__init__"]
    /\ history = <<>>
    /\ NoSession
    /\ NoOthers

\* a call of process_sensor_reading by the caller
CallProcessSensorReading(reading) ==
    LET r == process_sensor_reading(buf, reading) IN
    /\ buf' = r.bufs
    /\ prev' = buf
    /\ last' = [op |-> "process_sensor_reading", reading |-> reading,
                exc |-> r.exc, error |-> r.error]
    /\ UNCHANGED <<max_size, session, others>>

\* a call of add_to_buffer on one of the buffer's own lists
CallAddToBuffer(ch, data) ==
    LET r == add_to_buffer(data, buf[ch]) IN
    /\ buf' = [buf EXCEPT ![ch] = r.buffer]
    /\ prev' = buf
    /\ last' = [op |-> "add_to_buffer", channel |-> ch, data |-> data, exc |-> r.exc]
    /\ UNCHANGED <<max_size, session, others>>

ProcessSensorReading(reading) ==
    /\ CallProcessSensorReading(reading)
    /\ UNCHANGED history

AddToBuffer(ch, data) ==
    /\ CallAddToBuffer(ch, data)
    /\ UNCHANGED history

Clear ==
    /\ buf' = clear(buf)
    /\ prev' = buf
    /\ last' = [op |-> "clear"]
    /\ UNCHANGED <<max_size, history, session, others>>

Next ==
    \/ \E reading \in Readings : ProcessSensorReading(reading)
    \/ \E ch \in Channels : AddToBuffer(ch, DirectData(ch))
    \/ Clear

Spec == Init /\ [][Next]_vars

(***************************************************************************)
(* Pushes only, each recorded in history: up to max_size + MaxExtra        *)
(* entries, through process_sensor_reading and through add_to_buffer.      *)
(***************************************************************************)
PushReadings ==
    { [sensor_name |-> JStr("accelerometer"), payload |-> Accel1],
      [sensor_name |-> JStr("accelerometer"), payload |-> Accel2],
      [sensor_name |-> JStr("orientation"), payload |-> Orient1] }

PushReading(reading) ==
    /\ Len(history) < max_size + MaxExtra
    /\ CallProcessSensorReading(reading)
    /\ history' = Append(history, [channel |-> ChannelOf(reading.sensor_name),
                                   data |-> reading.payload])

PushDirect(ch, data) ==
    /\ Len(history) < max_size + MaxExtra
    /\ CallAddToBuffer(ch, data)
    /\ history' = Append(history, [channel |-> ch, data |-> data])

NextPush ==
    \/ \E reading \in PushReadings : PushReading(reading)
    \/ \E data \in {Accel1, Accel2} : PushDirect("gyroscope_data_buffer", data)

SpecPush == Init /\ [][NextPush]_vars

(***************************************************************************)
(* validate_sensor_values alone, on value maps drawn from bounded sets:    *)
(* every presence pattern of the required fields and one extra field,      *)
(* every kind of JSON value, in document order and in reverse order.       *)
(***************************************************************************)
Absent == [k |-> "absent"]

\* one value of each JSON kind
Samples == {JInt(1), JFloat(1), JStr("1.0"), JBool(TRUE), JNull,
            JList(<<>>), JDict(<<>>)}

RECURSIVE PairsFrom(_, _, _)
\* the dict with key keys[j] -> g[j] for every j >= i where g[j] is not Absent
PairsFrom(keys, g, i) ==
    IF i > Len(keys) THEN <<>>
    ELSE IF g[i] = Absent THEN PairsFrom(keys, g, i + 1)
    ELSE <<KV(keys[i], g[i])>> \o PairsFrom(keys, g, i + 1)

Reverse(s) == [i \in 1..Len(s) |-> s[Len(s) + 1 - i]]

XYZKeys == <<"x", "y", "z", "timestamp">>
OrientationKeys == <<"qx", "qy", "qz", "qw", "roll", "pitch", "yaw", "timestamp">>

\* every map over the x, y, z keys and one extra key, every kind of value
XYZDicts ==
    { JDict(PairsFrom(XYZKeys, g, 1)) :
        g \in [1..Len(XYZKeys) -> Samples \cup {Absent}] }

\* every presence pattern over the orientation keys and one extra key, the
\* values floats but for at most one field, which takes every kind of value
OrientationDicts ==
    { JDict(PairsFrom(OrientationKeys,
                      [i \in 1..Len(OrientationKeys) |->
                          IF i \notin q[1] THEN Absent
                          ELSE IF i = q[2] THEN q[3] ELSE JFloat(1)], 1)) :
        q \in (SUBSET (1..Len(OrientationKeys))) \X (1..Len(OrientationKeys))
              \X Samples }

ValidateValues ==
    XYZDicts \cup { JDict(Reverse(d.pairs)) : d \in XYZDicts }
    \cup OrientationDicts \cup (Samples \ {JDict(<<>>)})

InitValidate ==
    /\ max_size = MaxSize
    /\ buf = EmptyBuffers
    /\ prev = EmptyBuffers
    /\ history = <<>>
    /\ NoSession
    /\ NoOthers
    /\ \E name \in KnownNames, values \in ValidateValues :
          last = [op |-> "input", name |-> name, values |-> values]

Validate ==
    /\ last.op = "input"
    /\ last' = [op |-> "validate_sensor_values", name |-> last.name,
                values |-> last.values,
                result |-> validate_sensor_values(last.values, last.name)]
    /\ UNCHANGED <<max_size, buf, prev, history, session, others>>

NextValidate == Validate

SpecValidate == InitValidate /\ [][NextValidate]_vars

(***************************************************************************)
(* Messages delivered to on_message, one after the other, as the transport *)
(* loop delivers them.  history records the payload elements of the        *)
(* well-formed data-stream messages, in delivery order.                    *)
(***************************************************************************)
Element(name, values) == JDict(<<KV("name", name), KV("values", values)>>)

BoolX == XYZ(JBool(TRUE), JInt(3), JInt(4))

Elements ==
    { Element(JStr("accelerometer"), Accel1),
      Element(JStr("accelerometer"), BoolX),
      Element(JStr("orientation"), Orient1),
      Element(JStr("accelerometer"), MissingY),
      Element(JStr("magnetometer"), Accel1),
      JStr("not an object") }

RECURSIVE SeqsUpTo(_, _)
\* the sequences over S of length 1..n
SeqsUpTo(S, n) ==
    IF n = 0 THEN {}
    ELSE LET shorter == SeqsUpTo(S, n - 1) IN
         { <<e>> : e \in S } \cup shorter
         \cup { Append(q, e) : q \in shorter, e \in S }

Body(device_id, payload) ==
    JDict(<<KV("deviceId", device_id), KV("payload", payload)>>)

WellFormedMessages ==
    { [topic |-> MQTT_TOPICS.data_stream,
       payload |-> Bytes(Body(JStr("d1"), JList(items)))] :
        items \in SeqsUpTo(Elements, MaxPayload) }

OneReading == JList(<<Element(JStr("accelerometer"), Accel1)>>)

\* messages that the broker is to drop whole
RejectedMessages ==
    { [topic |-> MQTT_TOPICS.data_stream, payload |-> b] :
        b \in { NotJson,
                Bytes(JList(<<>>)),
                Bytes(JDict(<<KV("payload", OneReading)>>)),
                Bytes(Body(JStr(""), OneReading)),
                Bytes(JDict(<<KV("deviceId", JStr("d1"))>>)),
                Bytes(Body(JStr("d1"), JList(<<>>))),
                Bytes(Body(JStr("d1"), Element(JStr("accelerometer"), Accel1))) } }
    \cup { [topic |-> t, payload |-> Bytes(Body(JStr("d1"), OneReading))] :
             t \in {MQTT_TOPICS.recording_control, MQTT_TOPICS.status, "other"} }

\* section 4.4: the body shape of a data-stream message that is not rejected
IsWellFormed(msg) ==
    /\ msg.topic = MQTT_TOPICS.data_stream
    /\ msg.payload.parses
    /\ msg.payload.json.k = "dict"
    /\ HasKey(msg.payload.json, "deviceId")
    /\ ~Falsy(DictGet(msg.payload.json, "deviceId", JNull))
    /\ HasKey(msg.payload.json, "payload")
    /\ DictGet(msg.payload.json, "payload", JNull).k = "list"
    /\ DictGet(msg.payload.json, "payload", JNull).items # <<>>

PayloadItems(msg) == DictGet(msg.payload.json, "payload", JNull).items

OnMessage(msg) ==
    LET r == on_message(buf, msg)
        items == IF IsWellFormed(msg) THEN PayloadItems(msg) ELSE <<>>
    IN  /\ Len(history) + Len(items) <= MaxDelivered
        /\ buf' = r.bufs
        /\ prev' = buf
        /\ last' = [op |-> "on_message", msg |-> msg, exc |-> r.exc,
                    calls |-> r.calls, log |-> r.log]
        /\ history' = history \o items
        /\ UNCHANGED <<max_size, session, others>>

\* bodies of the shape {deviceId, payload: [value map, ...], name: sensor}
OldShapeBody(name, maps) ==
    JDict(<<KV("deviceId", JStr("d1")), KV("payload", JList(maps)), KV("name", name)>>)

OldShapeMessages ==
    { [topic |-> MQTT_TOPICS.data_stream, payload |-> Bytes(b)] :
        b \in { OldShapeBody(JStr("accelerometer"), <<Accel1>>),
                OldShapeBody(JStr("accelerometer"), <<Accel1, Accel2>>) } }

NextBroker ==
    \E msg \in WellFormedMessages \cup RejectedMessages \cup OldShapeMessages :
        OnMessage(msg)

SpecBroker == Init /\ [][NextBroker]_vars

(***************************************************************************)
(* MQTTBroker: the connection session.  The transport is the collaborator  *)
(* behind self.client; a call on it is recorded as a record naming the     *)
(* method and its arguments.                                               *)
(***************************************************************************)
CallSubscribe(topic) == [fn |-> "subscribe", topic |-> topic]
CallPublish(topic, body, qos) ==
    [fn |-> "publish", topic |-> topic, body |-> body, qos |-> qos]
CallReconnect == [fn |-> "reconnect"]
CallLoopStop == [fn |-> "loop_stop"]
CallDisconnect == [fn |-> "disconnect"]

\* the topics that the calls of subscribe() in a sequence of calls name
Subscriptions(calls) ==
    { calls[i].topic : i \in { j \in DOMAIN calls : calls[j].fn = "subscribe" } }

\* variant with a seeded fault: the record reports a recording in progress
status_record_recording(recording_state) ==
    JDict(<<KV("recording_state", JStr("recording")),
            KV("service", JStr("imu-mqtt-service")),
            KV("mqtt_status", JStr("connected"))>>)

\* the status dictionary of publish_status_update, without its two clock
\* readings (timestamp, uptime_seconds)
status_record(recording_state) ==
    JDict(<<KV("recording_state", JStr(recording_state)),
            KV("service", JStr("imu-mqtt-service")),
            KV("mqtt_status", JStr("connected"))>>)

\* variant with a seeded fault: connection_established is not consulted
publish_status_update_unguarded(is_connected, established, recording_state) ==
    IF is_connected
    THEN [client_calls |-> <<CallPublish(MQTT_TOPICS.status,
                                         status_record(recording_state), 0)>>,
          log |-> "Published status update"]
    ELSE [client_calls |-> <<>>,
          log |-> "Skipping status update - MQTT client not properly connected"]

\* publish_status_update: the calls it makes on the transport
publish_status_update(is_connected, established, recording_state) ==
    IF is_connected /\ established
    THEN [client_calls |-> <<CallPublish(MQTT_TOPICS.status,
                                         status_record(recording_state), 0)>>,
          log |-> "Published status update"]
    ELSE [client_calls |-> <<>>,
          log |-> "Skipping status update - MQTT client not properly connected"]

\* variant with a seeded fault: the status topic is not subscribed and no status
\* is published
on_connect_without_status(rc, is_connected, recording_state) ==
    IF rc = 0
    THEN [connection_established |-> TRUE,
          client_calls |->
              <<CallSubscribe(MQTT_TOPICS.recording_control),
                CallSubscribe(MQTT_TOPICS.data_stream)>>,
          log |-> "Connected to MQTT broker successfully"]
    ELSE [connection_established |-> FALSE, client_calls |-> <<>>,
          log |-> "Failed to connect to MQTT broker"]

\* variant with a seeded fault: a refused connection is retried from the callback
on_connect_retrying(rc, is_connected, recording_state) ==
    IF rc = 0
    THEN [connection_established |-> TRUE,
          client_calls |->
              <<CallSubscribe(MQTT_TOPICS.recording_control),
                CallSubscribe(MQTT_TOPICS.data_stream),
                CallSubscribe(MQTT_TOPICS.status)>>
              \o publish_status_update(is_connected, TRUE,
                                       recording_state).client_calls,
          log |-> "Connected to MQTT broker successfully"]
    ELSE [connection_established |-> FALSE, client_calls |-> <<CallReconnect>>,
          log |-> "Failed to connect to MQTT broker"]

\* on_connect: the flag it leaves and the calls it makes on the transport
on_connect(rc, is_connected, recording_state) ==
    IF rc = 0
    THEN [connection_established |-> TRUE,
          client_calls |->
              <<CallSubscribe(MQTT_TOPICS.recording_control),
                CallSubscribe(MQTT_TOPICS.data_stream),
                CallSubscribe(MQTT_TOPICS.status)>>
              \o publish_status_update(is_connected, TRUE,
                                       recording_state).client_calls,
          log |-> "Connected to MQTT broker successfully"]
    ELSE [connection_established |-> FALSE, client_calls |-> <<>>,
          log |-> "Failed to connect to MQTT broker"]

\* variant with a seeded fault: reconnect() is called whether or not the service runs
attempt_reconnection_always(running, reconnect_raises) ==
    [exc |-> "none", client_calls |-> <<CallReconnect>>,
     log |-> IF reconnect_raises THEN "Failed to reconnect to MQTT broker"
             ELSE "Attempting to reconnect to MQTT broker..."]

\* variant with a seeded fault: what reconnect() raises is not caught
attempt_reconnection_uncaught(running, reconnect_raises) ==
    IF running
    THEN [exc |-> IF reconnect_raises THEN "Exception" ELSE "none",
          client_calls |-> <<CallReconnect>>,
          log |-> IF reconnect_raises THEN "none"
                  ELSE "Attempting to reconnect to MQTT broker..."]
    ELSE [exc |-> "none", client_calls |-> <<>>, log |-> "none"]

\* _attempt_reconnection: reconnect() is called only while the service runs;
\* what it raises is caught and logged
attempt_reconnection(running, reconnect_raises) ==
    IF running
    THEN [exc |-> "none", client_calls |-> <<CallReconnect>>,
          log |-> IF reconnect_raises THEN "Failed to reconnect to MQTT broker"
                  ELSE "Attempting to reconnect to MQTT broker..."]
    ELSE [exc |-> "none", client_calls |-> <<>>, log |-> "none"]

\* variant with a seeded fault: the reconnection is attempted whether or not
\* the service runs
on_disconnect_reconnecting(rc, running, reconnect_raises) ==
    LET a == attempt_reconnection(TRUE, reconnect_raises) IN
    IF rc # 0
    THEN [exc |-> a.exc, connection_established |-> FALSE,
          client_calls |-> a.client_calls,
          log |-> "Unexpected MQTT disconnection"]
    ELSE [exc |-> "none", connection_established |-> FALSE,
          client_calls |-> <<>>, log |-> "Disconnected from MQTT broker"]

\* variant with a seeded fault: the flag is cleared on an unexpected
\* disconnection only
on_disconnect_flag_on_clean(rc, running, reconnect_raises) ==
    LET a == attempt_reconnection(running, reconnect_raises) IN
    IF rc # 0
    THEN [exc |-> a.exc, connection_established |-> FALSE,
          client_calls |-> a.client_calls,
          log |-> "Unexpected MQTT disconnection"]
    ELSE [exc |-> "none", connection_established |-> TRUE,
          client_calls |-> <<>>, log |-> "Disconnected from MQTT broker"]

\* on_disconnect: the flag it leaves, the calls it makes on the transport and
\* what it raises
on_disconnect(rc, running, reconnect_raises) ==
    LET a == attempt_reconnection(running, reconnect_raises) IN
    IF rc # 0
    THEN [exc |-> a.exc, connection_established |-> FALSE,
          client_calls |-> a.client_calls,
          log |-> "Unexpected MQTT disconnection"]
    ELSE [exc |-> "none", connection_established |-> FALSE,
          client_calls |-> <<>>, log |-> "Disconnected from MQTT broker"]

\* variant with a seeded fault: the connection is closed before the loop is stopped
signal_handler_disconnect_first(is_connected) ==
    [service_running |-> FALSE,
     client_calls |-> IF is_connected THEN <<CallDisconnect, CallLoopStop>>
                      ELSE <<>>]

\* signal_handler up to sys.exit: the flag it leaves and the calls it makes
signal_handler(is_connected) ==
    [service_running |-> FALSE,
     client_calls |-> IF is_connected THEN <<CallLoopStop, CallDisconnect>>
                      ELSE <<>>]

(***************************************************************************)
(* The session as threads run it.  The main thread runs __init__ statement *)
(* by statement and later the signal handler; the transport's receive loop *)
(* runs the three callbacks, one at a time, while it is started; a worker  *)
(* publishes the status periodically.  The transport reports connected     *)
(* from the moment the broker accepts the connection, before its loop runs *)
(* the on-connect callback with a success code, and reports disconnected   *)
(* once the connection is lost, before its loop runs on_disconnect.        *)
(***************************************************************************)
ConnectCodes == {0, 5}       \* CONNACK accepted, CONNACK refused
DisconnectCodes == {0, 1}    \* requested by disconnect(), unexpected

SessionMessages ==
    { [topic |-> MQTT_TOPICS.data_stream,
       payload |-> Bytes(Body(JStr("d1"), OneReading))],
      [topic |-> MQTT_TOPICS.data_stream,
       payload |-> Bytes(Body(JStr("d1"),
                              JList(<<Element(JStr("accelerometer"), MissingY),
                                      JStr("not an object")>>)))],
      [topic |-> MQTT_TOPICS.data_stream, payload |-> NotJson],
      [topic |-> MQTT_TOPICS.data_stream, payload |-> Bytes(JList(<<>>))],
      [topic |-> MQTT_TOPICS.data_stream,
       payload |-> Bytes(JDict(<<KV("payload", OneReading)>>))],
      [topic |-> MQTT_TOPICS.recording_control, payload |-> NotJson],
      [topic |-> MQTT_TOPICS.status, payload |-> Bytes(Body(JStr("d1"), OneReading))] }

\* the main thread has left __init__ and the process has not exited
Constructed == pc \in {"done", "grace"}

\* the receive loop of the transport is running callbacks
LoopRuns == client.loop /\ pc # "exited"

\* variant with a seeded fault: connect is tried a second time before loop_start
InitConnectTwice(raises) ==
    /\ pc = "connect"
    /\ client' = [client EXCEPT
          !.connects = @ + 2,
          !.connect_args = <<MQTT_CONFIG.broker_host, MQTT_CONFIG.broker_port, 60>>,
          !.loop_starts = IF raises THEN @ ELSE @ + 1,
          !.loop = ~raises]
    /\ service_running' = FALSE
    /\ pc' = IF raises THEN "done" ELSE "wait"
    /\ last' = [op |-> "__init__", step |-> "connect", exc |-> "none",
                caught |-> IF raises THEN "Exception" ELSE "none"]
    /\ UNCHANGED <<max_size, buf, prev, history, connection_established,
                   current_recording_state, polls, others>>

\* variant with a seeded fault: the exception of connect is not caught
InitConnectUncaught(raises) ==
    /\ pc = "connect"
    /\ client' = [client EXCEPT
          !.connects = @ + 1,
          !.connect_args = <<MQTT_CONFIG.broker_host, MQTT_CONFIG.broker_port, 60>>,
          !.loop_starts = IF raises THEN @ ELSE @ + 1,
          !.loop = ~raises]
    /\ service_running' = FALSE
    /\ pc' = IF raises THEN "done" ELSE "wait"
    /\ last' = [op |-> "__init__", step |-> "connect",
                exc |-> IF raises THEN "Exception" ELSE "none", caught |-> "none"]
    /\ UNCHANGED <<max_size, buf, prev, history, connection_established,
                   current_recording_state, polls, others>>

\* __init__, lines 50-53 and 69-71: connect(host, port, 60) and, when it
\* returns, loop_start; the exception connect raises is caught, logged and
\* answered by service_running = False
InitConnect(raises) ==
    /\ pc = "connect"
    /\ client' = [client EXCEPT
          !.connects = @ + 1,
          !.connect_args = <<MQTT_CONFIG.broker_host, MQTT_CONFIG.broker_port, 60>>,
          !.loop_starts = IF raises THEN @ ELSE @ + 1,
          !.loop = ~raises]
    /\ service_running' = FALSE
    /\ pc' = IF raises THEN "done" ELSE "wait"
    /\ last' = [op |-> "__init__", step |-> "connect", exc |-> "none",
                caught |-> IF raises THEN "Exception" ELSE "none"]
    /\ UNCHANGED <<max_size, buf, prev, history, connection_established,
                   current_recording_state, polls, others>>

\* __init__, lines 59-60: one turn of the wait loop
InitPoll ==
    /\ pc = "wait"
    /\ ~connection_established
    /\ polls < MaxPolls
    /\ polls' = polls + 1
    /\ last' = [op |-> "__init__", step |-> "sleep"]
    /\ UNCHANGED <<max_size, buf, prev, history, connection_established,
                   service_running, current_recording_state, client, pc, others>>

\* variant with a seeded fault: the wait loop ends by the flag only
InitWaitOverFlagOnly ==
    /\ pc = "wait"
    /\ connection_established
    /\ pc' = "check"
    /\ last' = [op |-> "__init__", step |-> "wait over",
                established |-> connection_established]
    /\ UNCHANGED <<max_size, buf, prev, history, connection_established,
                   service_running, current_recording_state, client, polls, others>>

\* __init__, line 59: the wait loop ends, by the flag or by the timeout
InitWaitOver ==
    /\ pc = "wait"
    /\ connection_established \/ polls = MaxPolls
    /\ pc' = "check"
    /\ last' = [op |-> "__init__", step |-> "wait over",
                established |-> connection_established]
    /\ UNCHANGED <<max_size, buf, prev, history, connection_established,
                   service_running, current_recording_state, client, polls, others>>

\* variant with a seeded fault: the service is marked running on either branch
InitCheckAlwaysRunning ==
    /\ pc = "check"
    /\ service_running' = TRUE
    /\ pc' = IF connection_established THEN "done" ELSE "stop"
    /\ last' = [op |-> "__init__", step |-> "check",
                established |-> connection_established]
    /\ UNCHANGED <<max_size, buf, prev, history, connection_established,
                   current_recording_state, client, polls, others>>

\* __init__, lines 62-66: the flag is read again and selects the branch
InitCheck ==
    /\ pc = "check"
    /\ service_running' = connection_established
    /\ pc' = IF connection_established THEN "done" ELSE "stop"
    /\ last' = [op |-> "__init__", step |-> "check",
                established |-> connection_established]
    /\ UNCHANGED <<max_size, buf, prev, history, connection_established,
                   current_recording_state, client, polls, others>>

\* __init__, line 67: the timeout branch stops the receive loop
InitLoopStop ==
    /\ pc = "stop"
    /\ client' = [client EXCEPT !.loop = FALSE]
    /\ pc' = "done"
    /\ last' = [op |-> "__init__", step |-> "timeout",
                client_calls |-> <<CallLoopStop>>]
    /\ UNCHANGED <<max_size, buf, prev, history, connection_established,
                   service_running, current_recording_state, polls, others>>

\* the broker accepts the connection that connect or reconnect asked for
TransportUp ==
    /\ LoopRuns
    /\ ~client.connected
    /\ client' = [client EXCEPT !.connected = TRUE]
    /\ last' = [op |-> "transport", event |-> "up"]
    /\ UNCHANGED <<max_size, buf, prev, history, connection_established,
                   service_running, current_recording_state, pc, polls, others>>

\* the connection is lost
TransportDown ==
    /\ LoopRuns
    /\ client.connected
    /\ client' = [client EXCEPT !.connected = FALSE]
    /\ last' = [op |-> "transport", event |-> "down"]
    /\ UNCHANGED <<max_size, buf, prev, history, connection_established,
                   service_running, current_recording_state, pc, polls, others>>

\* the receive loop runs on_connect
OnConnect(rc) ==
    LET r == on_connect(rc, client.connected, current_recording_state) IN
    /\ LoopRuns
    /\ client.connected <=> rc = 0
    /\ connection_established' = r.connection_established
    /\ client' = [client EXCEPT !.subscribed = @ \cup Subscriptions(r.client_calls)]
    /\ last' = [op |-> "on_connect", rc |-> rc, client_calls |-> r.client_calls,
                log |-> r.log]
    /\ UNCHANGED <<max_size, buf, prev, history, service_running,
                   current_recording_state, pc, polls, others>>

\* the receive loop runs on_disconnect
OnDisconnect(rc, reconnect_raises) ==
    LET r == on_disconnect(rc, service_running, reconnect_raises) IN
    /\ LoopRuns
    /\ ~client.connected
    /\ connection_established' = r.connection_established
    /\ last' = [op |-> "on_disconnect", rc |-> rc, running |-> service_running,
                established |-> connection_established,
                reconnect_raised |-> r.client_calls # <<>> /\ reconnect_raises,
                exc |-> r.exc, client_calls |-> r.client_calls, log |-> r.log]
    /\ UNCHANGED <<max_size, buf, prev, history, service_running,
                   current_recording_state, client, pc, polls, others>>

\* the receive loop runs on_message
OnSessionMessage(msg) ==
    /\ LoopRuns
    /\ OnMessage(msg)

\* the periodic worker, or any caller, runs publish_status_update
PublishStatusUpdate ==
    LET r == publish_status_update(client.connected, connection_established,
                                   current_recording_state) IN
    /\ Constructed
    /\ last' = [op |-> "publish_status_update", is_connected |-> client.connected,
                established |-> connection_established,
                client_calls |-> r.client_calls, log |-> r.log]
    /\ UNCHANGED <<max_size, buf, prev, history, session, others>>

\* the main thread runs signal_handler, lines 208-211: the flag is cleared
\* and is_connected() is read; connected, the handler sleeps its second of
\* grace while the receive loop goes on; not connected, it goes to sys.exit(0)
SignalHandler ==
    LET r == signal_handler(client.connected) IN
    /\ pc = "done"
    /\ service_running' = r.service_running
    /\ pc' = IF client.connected THEN "grace" ELSE "exited"
    /\ last' = IF client.connected
               THEN [op |-> "signal_handler sleeps"]
               ELSE [op |-> "signal_handler", is_connected |-> FALSE,
                     client_calls |-> r.client_calls]
    /\ UNCHANGED <<max_size, buf, prev, history, connection_established,
                   current_recording_state, client, polls, others>>

\* signal_handler, lines 213-216: after the sleep, loop_stop, disconnect and
\* sys.exit(0)
SignalHandlerStop ==
    LET r == signal_handler(TRUE) IN
    /\ pc = "grace"
    /\ client' = [client EXCEPT !.loop = FALSE, !.connected = FALSE]
    /\ pc' = "exited"
    /\ last' = [op |-> "signal_handler", is_connected |-> TRUE,
                client_calls |-> r.client_calls]
    /\ UNCHANGED <<max_size, buf, prev, history, connection_established,
                   service_running, current_recording_state, polls, others>>

NextSession ==
    \/ \E raises \in BOOLEAN : InitConnect(raises)
    \/ InitPoll
    \/ InitWaitOver
    \/ InitCheck
    \/ InitLoopStop
    \/ TransportUp
    \/ TransportDown
    \/ \E rc \in ConnectCodes : OnConnect(rc)
    \/ \E rc \in DisconnectCodes, raises \in BOOLEAN : OnDisconnect(rc, raises)
    \/ \E msg \in SessionMessages : OnSessionMessage(msg)
    \/ PublishStatusUpdate
    \/ SignalHandler
    \/ SignalHandlerStop

SpecSession == Init /\ [][NextSession]_vars

\* the steps of the thread that runs __init__
MainThreadInit ==
    \/ \E raises \in BOOLEAN : InitConnect(raises)
    \/ InitPoll
    \/ InitWaitOver
    \/ InitCheck
    \/ InitLoopStop

\* the session when the constructing thread keeps being scheduled and its
\* clock advances: connect() returns or raises, and every sleep(0.1) returns
SpecSessionFair == SpecSession /\ WF_vars(MainThreadInit)

(***************************************************************************)
(* The buffer under concurrent callers.  Each worker is a thread that      *)
(* delivers its stream of readings through process_sensor_reading; the     *)
(* threads interleave between the statements of add_to_buffer: the length  *)
(* test, the pop and the append.  A worker keeps its stream, the index of  *)
(* its next reading, its position, the list and entry of the call in       *)
(* progress, and the exception that ended its last call.                   *)
(***************************************************************************)
Gyro1 == XYZ(JFloat(4), JFloat(5), JFloat(6))
Gyro2 == XYZ(JInt(7), JFloat(8), JFloat(9))

\* the first n readings of one sensor
StreamOf(name, payloads, n) ==
    [i \in 1..n |-> [sensor_name |-> name, payload |-> payloads[i]]]

AccelerometerStreams ==
    { StreamOf(JStr("accelerometer"), <<Accel1, Accel2, Accel1>>, n) : n \in 0..MaxStream }
GyroscopeStreams ==
    { StreamOf(JStr("gyroscope"), <<Gyro1, Gyro2, Gyro1>>, n) : n \in 0..MaxStream }

Worker(stream) ==
    [stream |-> stream, next |-> 1, pc |-> "idle", ch |-> "", data |-> JNull,
     exc |-> "none"]

InitWorkers ==
    /\ max_size \in 1..MaxSize
    /\ buf = EmptyBuffers
    /\ prev = EmptyBuffers
    /\ last = [op |-> "__init__"]
    /\ history = <<>>
    /\ NoSession
    /\ snapshot = [taken |-> FALSE]
    /\ handler = NoHandler
    /\ \E s1 \in AccelerometerStreams, s2 \in GyroscopeStreams :
          workers = <<Worker(s1), Worker(s2)>>

\* process_sensor_reading up to the call of add_to_buffer: the branch is
\* selected and the values are validated
WorkerCall(w) ==
    LET me == workers[w]
        reading == me.stream[me.next]
        ch == ChannelOf(reading.sensor_name)
        v == IF ch = "" THEN NoError
             ELSE validate_sensor_values(reading.payload, reading.sensor_name)
    IN  /\ me.pc = "idle"
        /\ me.next <= Len(me.stream)
        /\ workers' = [workers EXCEPT ![w] =
              IF ch = "" \/ v.err # "none"
              THEN [me EXCEPT !.next = @ + 1, !.exc = "none"]
              ELSE [me EXCEPT !.pc = "check", !.ch = ch, !.data = reading.payload,
                              !.exc = "none"]]
        /\ UNCHANGED <<max_size, buf, prev, last, history, session, snapshot, handler>>

\* add_to_buffer, line 62: len(buffer) >= self.max_size
WorkerCheck(w) ==
    LET me == workers[w] IN
    /\ me.pc = "check"
    /\ workers' = [workers EXCEPT ![w].pc =
          IF Len(buf[me.ch]) >= max_size THEN "pop" ELSE "append"]
    /\ UNCHANGED <<max_size, buf, prev, last, history, session, snapshot, handler>>

\* add_to_buffer, line 63: buffer.pop(0), IndexError on a list found empty
WorkerPop(w) ==
    LET me == workers[w] IN
    /\ me.pc = "pop"
    /\ IF buf[me.ch] = <<>>
       THEN /\ workers' = [workers EXCEPT ![w] =
                  [me EXCEPT !.pc = "idle", !.next = @ + 1, !.exc = "IndexError"]]
            /\ buf' = buf
       ELSE /\ workers' = [workers EXCEPT ![w].pc = "append"]
            /\ buf' = [buf EXCEPT ![me.ch] = Tail(@)]
    /\ UNCHANGED <<max_size, prev, last, history, session, snapshot, handler>>

\* add_to_buffer, line 64: buffer.append(data), and the call returns
WorkerAppend(w) ==
    LET me == workers[w] IN
    /\ me.pc = "append"
    /\ buf' = [buf EXCEPT ![me.ch] = Append(@, me.data)]
    /\ workers' = [workers EXCEPT ![w] = [me EXCEPT !.pc = "idle", !.next = @ + 1]]
    /\ UNCHANGED <<max_size, prev, last, history, session, snapshot, handler>>

NextWorkers ==
    \/ \E w \in DOMAIN workers : WorkerCall(w)
    \/ \E w \in DOMAIN workers : WorkerCheck(w)
    \/ \E w \in DOMAIN workers : WorkerPop(w)
    \/ \E w \in DOMAIN workers : WorkerAppend(w)

SpecWorkers == InitWorkers /\ [][NextWorkers]_vars

\* two workers that both deliver accelerometer readings
InitWorkersSame ==
    /\ max_size \in 1..MaxSize
    /\ buf = EmptyBuffers
    /\ prev = EmptyBuffers
    /\ last = [op |-> "__init__"]
    /\ history = <<>>
    /\ NoSession
    /\ snapshot = [taken |-> FALSE]
    /\ handler = NoHandler
    /\ \E s1 \in AccelerometerStreams, s2 \in AccelerometerStreams :
          workers = <<Worker(s1), Worker(s2)>>

SpecWorkersSame == InitWorkersSame /\ [][NextWorkers]_vars

(***************************************************************************)
(* The dictionary of get_data in the hands of a reader.  A list object is  *)
(* identified by the attribute of the buffer that holds it: the attributes *)
(* are bound once, in __init__, and add_to_buffer and clear change the     *)
(* lists in place.  A value of the dictionary is a reference to a list     *)
(* object; what the reader sees under a key is the present content of the  *)
(* object referred to.                                                     *)
(***************************************************************************)
\* get_data: the keys of the dictionary and the list objects they refer to
get_data ==
    [accelerometer |-> "accelerometer_data_buffer",
     gyroscope |-> "gyroscope_data_buffer",
     gravity |-> "gravity_data_buffer",
     total_acceleration |-> "total_acceleration_data_buffer",
     orientation |-> "orientation_data_buffer"]

\* the lists a reader finds in the dictionary d when looking at it now
Contents(d) == [key \in DOMAIN d |-> buf[d[key]]]

\* a reader calls get_data and keeps the dictionary; at_call is a history
\* field, the lists as they were at the call
GetData ==
    /\ ~snapshot.taken
    /\ snapshot' = [taken |-> TRUE, data |-> get_data, at_call |-> Contents(get_data)]
    /\ prev' = buf
    /\ last' = [op |-> "get_data"]
    /\ UNCHANGED <<max_size, buf, history, session, workers, handler>>

NextSnapshot ==
    \/ GetData
    \/ \E reading \in PushReadings : ProcessSensorReading(reading)
    \/ Clear

SpecSnapshot == Init /\ [][NextSnapshot]_vars

\* get_current_buffer_size: the length of each list under its key
get_current_buffer_size(bufs) ==
    [accelerometer |-> Len(bufs["accelerometer_data_buffer"]),
     gyroscope |-> Len(bufs["gyroscope_data_buffer"]),
     gravity |-> Len(bufs["gravity_data_buffer"]),
     total_acceleration |-> Len(bufs["total_acceleration_data_buffer"]),
     orientation |-> Len(bufs["orientation_data_buffer"])]

\* a reader calls get_current_buffer_size while the workers push; complete is
\* a history field, the number of pushes each worker has completed at the call
GetCurrentBufferSize ==
    /\ workers # <<>>
    /\ snapshot' = [taken |-> TRUE, sizes |-> get_current_buffer_size(buf),
                    complete |-> [w \in DOMAIN workers |-> workers[w].next - 1]]
    /\ UNCHANGED <<max_size, buf, prev, last, history, session, workers, handler>>

NextReaders ==
    \/ \E w \in DOMAIN workers : WorkerCall(w)
    \/ \E w \in DOMAIN workers : WorkerCheck(w)
    \/ \E w \in DOMAIN workers : WorkerPop(w)
    \/ \E w \in DOMAIN workers : WorkerAppend(w)
    \/ GetCurrentBufferSize

\* one worker per sensor type and a reader of the sizes
SpecReaders == InitWorkers /\ [][NextReaders]_vars

(***************************************************************************)
(* The buffer constructed from any configured max_buffer_size, zero and    *)
(* negative sizes included, and then pushed into.                          *)
(***************************************************************************)
\* IMUBuffer.__init__: the five empty lists and max_size as configured; the
\* constructor tests nothing and raises nothing
IMUBuffer(max_buffer_size) ==
    [exc |-> "none", max_size |-> max_buffer_size, bufs |-> EmptyBuffers]

ConfiguredSizes == -1..MaxSize

InitConfig ==
    /\ \E size \in ConfiguredSizes :
          LET r == IMUBuffer(size) IN
          /\ max_size = r.max_size
          /\ buf = r.bufs
          /\ last = [op |-> "__init__", max_buffer_size |-> size, exc |-> r.exc]
    /\ prev = EmptyBuffers
    /\ history = <<>>
    /\ NoSession
    /\ NoOthers

NextConfig ==
    \/ \E reading \in PushReadings : ProcessSensorReading(reading)
    \/ \E ch \in Channels : AddToBuffer(ch, DirectData(ch))
    \/ Clear

SpecConfig == InitConfig /\ [][NextConfig]_vars

(***************************************************************************)
(* IMUMessageHandler (src/src/imu_message_handler.py): the handler that    *)
(* the broker package calls with the topic and the parsed body of a        *)
(* message.  The orchestrator client is a collaborator: its status call    *)
(* answers ready or not ready, or raises.                                  *)
(***************************************************************************)
OrchestratorStatuses == {"ready", "not ready", "raises"}

RECURSIVE HandlerLoop(_, _, _, _, _)
\* the for loop of handle_data_processing from element i on: the buffers
\* after it, the readings passed to process_sensor_reading, and the exception
\* that ended the loop
HandlerLoop(bufs, data, items, i, calls) ==
    IF i > Len(items)
    THEN [exc |-> "none", bufs |-> bufs, calls |-> calls]
    ELSE LET sensor_data == items[i] IN
         IF sensor_data.k \in {"int", "float", "bool", "null"}
         THEN \* 'name' not in sensor_data raises
              [exc |-> "TypeError", bufs |-> bufs, calls |-> calls]
         ELSE IF sensor_data.k # "dict"
         THEN \* a string or a list: 'name' is not in it
              [exc |-> "ValueError", bufs |-> bufs, calls |-> calls]
         ELSE IF ~HasKey(sensor_data, "name") \/ ~HasKey(sensor_data, "values")
         THEN [exc |-> "ValueError", bufs |-> bufs, calls |-> calls]
         ELSE LET sensor_reading ==
                      [sensor_name |-> DictGet(sensor_data, "name", JNull),
                       payload |-> DictGet(sensor_data, "values", JNull)]
                  r == process_sensor_reading(bufs, sensor_reading)
              IN  IF r.exc # "none"
                  THEN [exc |-> r.exc, bufs |-> r.bufs,
                        calls |-> Append(calls, sensor_reading)]
                  ELSE HandlerLoop(r.bufs, data, items, i + 1,
                                   Append(calls, sensor_reading))

\* handle_data_processing: whatever is raised inside leaves as RuntimeError
handle_data_processing(bufs, data) ==
    IF data.k # "dict"
    THEN [exc |-> "RuntimeError", bufs |-> bufs, calls |-> <<>>]
    ELSE LET payload == DictGet(data, "payload", JList(<<>>)) IN
         IF payload.k # "list" \/ payload.items = <<>>
         THEN [exc |-> "RuntimeError", bufs |-> bufs, calls |-> <<>>]
         ELSE LET r == HandlerLoop(bufs, data, payload.items, 1, <<>>) IN
              [exc |-> IF r.exc # "none" THEN "RuntimeError" ELSE "none",
               bufs |-> r.bufs, calls |-> r.calls]

\* variant with a seeded fault: the RuntimeError of handle_data_processing is not caught
handle_message_uncaught(bufs, topic, payload, status) ==
    IF topic # MQTT_TOPICS.data_stream
    THEN [exc |-> "none", caught |-> "none", bufs |-> bufs, calls |-> <<>>,
          log |-> "none"]
    ELSE IF status = "raises"
    THEN [exc |-> "none", caught |-> "Exception", bufs |-> bufs, calls |-> <<>>,
          log |-> "Failed to process IMU message"]
    ELSE IF status = "not ready"
    THEN [exc |-> "none", caught |-> "none", bufs |-> bufs, calls |-> <<>>,
          log |-> "Orchestrator service is not ready, cannot process IMU data"]
    ELSE LET r == handle_data_processing(bufs, payload) IN
         [exc |-> r.exc, caught |-> "none", bufs |-> r.bufs, calls |-> r.calls,
          log |-> "none"]

\* variant with a seeded fault: the data is processed whatever the status says
handle_message_ignoring_status(bufs, topic, payload, status) ==
    IF topic # MQTT_TOPICS.data_stream
    THEN [exc |-> "none", caught |-> "none", bufs |-> bufs, calls |-> <<>>,
          log |-> "none"]
    ELSE IF status = "raises"
    THEN [exc |-> "none", caught |-> "Exception", bufs |-> bufs, calls |-> <<>>,
          log |-> "Failed to process IMU message"]
    ELSE LET r == handle_data_processing(bufs, payload) IN
         [exc |-> "none", caught |-> r.exc, bufs |-> r.bufs, calls |-> r.calls,
          log |-> IF r.exc # "none" THEN "Failed to process IMU message"
                  ELSE "none"]

\* handle_message: the exception that leaves it, the exception it caught, the
\* buffers after it, the readings dispatched and the error it logged
handle_message(bufs, topic, payload, status) ==
    IF topic # MQTT_TOPICS.data_stream
    THEN [exc |-> "none", caught |-> "none", bufs |-> bufs, calls |-> <<>>,
          log |-> "none"]
    ELSE IF status = "raises"
    THEN [exc |-> "none", caught |-> "Exception", bufs |-> bufs, calls |-> <<>>,
          log |-> "Failed to process IMU message"]
    ELSE IF status = "not ready"
    THEN [exc |-> "none", caught |-> "none", bufs |-> bufs, calls |-> <<>>,
          log |-> "Orchestrator service is not ready, cannot process IMU data"]
    ELSE LET r == handle_data_processing(bufs, payload) IN
         [exc |-> "none", caught |-> r.exc, bufs |-> r.bufs, calls |-> r.calls,
          log |-> IF r.exc # "none" THEN "Failed to process IMU message"
                  ELSE "none"]

\* payload entries offered to the handler
HandlerElements ==
    { Element(JStr("accelerometer"), Accel1),
      Element(JStr("accelerometer"), Accel2),
      Element(JStr("accelerometer"), MissingY),
      JDict(<<KV("values", Accel1)>>),
      JDict(<<KV("name", JStr("accelerometer"))>>),
      JStr("not an object") }

\* bodies with a non-empty payload list, with and without deviceId
ListBodies ==
    { Body(JStr("d1"), JList(items)) : items \in SeqsUpTo(HandlerElements, MaxPayload) }
    \cup { JDict(<<KV("payload", OneReading)>>) }

\* bodies whose payload is missing, is not a list or is the empty list
NoListBodies ==
    { JDict(<<KV("deviceId", JStr("d1"))>>),
      Body(JStr("d1"), JStr("invalid")),
      Body(JStr("d1"), Element(JStr("accelerometer"), Accel1)),
      Body(JStr("d1"), JList(<<>>)),
      JList(<<>>) }

\* the topic, body and orchestrator status of one delivery
HandlerDeliveries ==
    { [topic |-> MQTT_TOPICS.data_stream, payload |-> b, status |-> "ready"] :
        b \in ListBodies \cup NoListBodies }
    \cup { [topic |-> MQTT_TOPICS.data_stream, payload |-> Body(JStr("d1"), OneReading),
            status |-> s] : s \in OrchestratorStatuses }
    \cup { [topic |-> t, payload |-> Body(JStr("d1"), OneReading), status |-> "ready"] :
             t \in {MQTT_TOPICS.recording_control, MQTT_TOPICS.status} }

\* the broker package calls handle_message
HandleMessage(d) ==
    LET r == handle_message(buf, d.topic, d.payload, d.status) IN
    /\ buf' = r.bufs
    /\ prev' = buf
    /\ last' = [op |-> "handle_message", topic |-> d.topic, payload |-> d.payload,
                status |-> d.status, exc |-> r.exc, caught |-> r.caught,
                calls |-> r.calls, log |-> r.log]
    /\ UNCHANGED <<max_size, history, session, others>>

NextHandler == \E d \in HandlerDeliveries : HandleMessage(d)

SpecHandler == Init /\ [][NextHandler]_vars

\* topics other than the data-stream topic: the two others that the broker
\* subscribes, and one that is not configured
OtherTopics == {MQTT_TOPICS.recording_control, MQTT_TOPICS.status, "other"}

\* bodies delivered on them: readings that the data-stream topic would
\* buffer, the old shape, bodies to reject, a body that is not an object
TopicBodies ==
    { Body(JStr("d1"), OneReading),
      Body(JStr("d1"), JList(<<Element(JStr("orientation"), Orient1),
                               Element(JStr("accelerometer"), Accel2)>>)),
      OldShapeBody(JStr("accelerometer"), <<Accel1>>),
      JDict(<<KV("payload", OneReading)>>),
      Body(JStr("d1"), JList(<<>>)),
      JList(<<>>) }

\* messages for on_message: every body and bytes that are not JSON on the
\* other topics, one reading on the data-stream topic
TopicMessages ==
    { [topic |-> t, payload |-> p] :
        t \in OtherTopics, p \in { Bytes(b) : b \in TopicBodies } \cup {NotJson} }
    \cup { [topic |-> MQTT_TOPICS.data_stream,
            payload |-> Bytes(Body(JStr("d1"), OneReading))] }

\* deliveries for handle_message: every body under every orchestrator status
\* on the other topics, one reading on the data-stream topic
TopicDeliveries ==
    { [topic |-> t, payload |-> b, status |-> s] :
        t \in OtherTopics, b \in TopicBodies, s \in OrchestratorStatuses }
    \cup { [topic |-> MQTT_TOPICS.data_stream,
            payload |-> Body(JStr("d1"), OneReading), status |-> "ready"] }

NextTopics ==
    \/ \E msg \in TopicMessages : OnMessage(msg)
    \/ \E d \in TopicDeliveries : HandleMessage(d)

\* the same buffer behind MQTTBroker.on_message and behind
\* IMUMessageHandler.handle_message, messages arriving on every topic
SpecTopics == Init /\ [][NextTopics]_vars

\* __init__, line 20: the number of turns of the health-check loop
retries == 10

\* IMUMessageHandler(...) is called: the loop is about to start
InitHandler ==
    /\ max_size \in 1..MaxSize
    /\ buf = EmptyBuffers
    /\ prev = EmptyBuffers
    /\ last = [op |-> "__init__"]
    /\ history = <<>>
    /\ NoSession
    /\ workers = <<>>
    /\ snapshot = [taken |-> FALSE]
    /\ handler = [pc |-> "loop", turn |-> 0, loop_checks |-> <<>>,
                  final_checks |-> <<>>, exc |-> "none"]

\* __init__, lines 21-27: one turn of the loop, health_check() returning
\* healthy; the loop is left by break or after the last turn's sleep
HandlerInitLoop(healthy) ==
    /\ handler.pc = "loop"
    /\ handler.turn < retries
    /\ handler' = [handler EXCEPT
          !.loop_checks = Append(@, healthy),
          !.turn = IF healthy THEN @ ELSE @ + 1,
          !.pc = IF healthy \/ handler.turn + 1 = retries THEN "after loop" ELSE "loop"]
    /\ UNCHANGED <<max_size, buf, prev, last, history, session, workers, snapshot>>

\* variant with a seeded fault: the outcome is taken from the loop's last check
HandlerInitFinalWithoutCheck(healthy) ==
    LET found == handler.loop_checks[Len(handler.loop_checks)] IN
    /\ handler.pc = "after loop"
    /\ handler' = [handler EXCEPT
          !.pc = IF found THEN "constructed" ELSE "raised",
          !.exc = IF found THEN "none" ELSE "RuntimeError"]
    /\ UNCHANGED <<max_size, buf, prev, last, history, session, workers, snapshot>>

\* __init__, lines 29-31: health_check() is called once more, and
\* RuntimeError is raised when it returns false
HandlerInitFinal(healthy) ==
    /\ handler.pc = "after loop"
    /\ handler' = [handler EXCEPT
          !.final_checks = Append(@, healthy),
          !.pc = IF healthy THEN "constructed" ELSE "raised",
          !.exc = IF healthy THEN "none" ELSE "RuntimeError"]
    /\ UNCHANGED <<max_size, buf, prev, last, history, session, workers, snapshot>>

\* the deliveries made to the handler once constructed: one valid reading on
\* each topic and under each orchestrator status
ConstructedDeliveries ==
    { d \in HandlerDeliveries : d.payload = Body(JStr("d1"), OneReading) }

\* the broker package calls handle_message of the constructed handler
HandleMessageConstructed(d) ==
    /\ handler.pc = "constructed"
    /\ HandleMessage(d)

NextHandlerInit ==
    \/ \E healthy \in BOOLEAN : HandlerInitLoop(healthy)
    \/ \E healthy \in BOOLEAN : HandlerInitFinal(healthy)
    \/ \E d \in ConstructedDeliveries : HandleMessageConstructed(d)

SpecHandlerInit == InitHandler /\ [][NextHandlerInit]_vars

(***************************************************************************)
(* The data model of the specification (section 3), which the claims are   *)
(* stated against.                                                         *)
(***************************************************************************)
\* the table of section 3: sensor type -> channel and required fields
TypeChannel ==
    [accelerometer |-> "accelerometer_data_buffer",
     gyroscope |-> "gyroscope_data_buffer",
     gravity |-> "gravity_data_buffer",
     totalacceleration |-> "total_acceleration_data_buffer",
     orientation |-> "orientation_data_buffer"]

TypeRequired ==
    [accelerometer |-> <<"x", "y", "z">>,
     gyroscope |-> <<"x", "y", "z">>,
     gravity |-> <<"x", "y", "z">>,
     totalacceleration |-> <<"x", "y", "z">>,
     orientation |-> <<"qx", "qy", "qz", "qw", "roll", "pitch", "yaw">>]

IsSensorType(name) == name.k = "str" /\ name.s \in DOMAIN TypeChannel

\* a mapping with every required field of the type, every value an integer or a float
CompleteNumeric(values, name) ==
    /\ values.k = "dict"
    /\ \A i \in 1..Len(TypeRequired[name.s]) : HasKey(values, TypeRequired[name.s][i])
    /\ \A i \in 1..Len(values.pairs) : values.pairs[i].val.k \in {"int", "float"}

(***************************************************************************)
(* C1: with max_size >= 1, after any sequence of process_sensor_reading,   *)
(* add_to_buffer and clear calls of one caller, no channel is longer than  *)
(* max_size.                                                               *)
(***************************************************************************)
C1_LengthBounded ==
    max_size >= 1 => \A c \in Channels : Len(buf[c]) <= max_size

\* a push into a channel that was full: the eviction case
C1_Witness ==
    /\ last.op \in {"process_sensor_reading", "add_to_buffer"}
    /\ \E c \in Channels :
          /\ Len(prev[c]) = max_size
          /\ buf[c] # prev[c]
          /\ Len(buf[c]) = max_size

(***************************************************************************)
(* C2: pushing max_size + k entries into an empty channel leaves exactly   *)
(* max_size entries, the last max_size pushed, in arrival order.           *)
(***************************************************************************)
\* the last n entries of s, all of s when it has fewer
LastN(s, n) == IF Len(s) <= n THEN s ELSE SubSeq(s, Len(s) - n + 1, Len(s))

RECURSIVE PushedInto(_, _)
\* the entries that h records as pushed into channel c, in order
PushedInto(h, c) ==
    IF h = <<>> THEN <<>>
    ELSE LET rest == PushedInto(SubSeq(h, 1, Len(h) - 1), c)
             e == h[Len(h)]
         IN  IF e.channel = c THEN Append(rest, e.data) ELSE rest

C2_KeepsLastMaxSize ==
    \A c \in Channels :
        /\ buf[c] = LastN(PushedInto(history, c), max_size)
        /\ Len(PushedInto(history, c)) >= max_size => Len(buf[c]) = max_size

\* max_size + 2 entries, not all the same, were pushed into one channel
C2_Witness ==
    \E c \in Channels :
        LET p == PushedInto(history, c) IN
        /\ Len(p) >= max_size + 2
        /\ p[1] # p[2]
        /\ p[Len(p)] # p[Len(p) - 1]

(***************************************************************************)
(* C3: for any sequence of data-stream messages delivered to on_message,   *)
(* each channel holds the last max_size readings of its sensor type that   *)
(* passed validation, in message delivery order and, within a message, in  *)
(* payload list order.                                                     *)
(***************************************************************************)
\* section 4.4: a payload element is an object {"name": ..., "values": ...}
IsReadingOf(e, c) ==
    /\ e.k = "dict"
    /\ HasKey(e, "name")
    /\ HasKey(e, "values")
    /\ IsSensorType(DictGet(e, "name", JNull))
    /\ TypeChannel[DictGet(e, "name", JNull).s] = c
    /\ validate_sensor_values(DictGet(e, "values", JNull),
                              DictGet(e, "name", JNull)) = NoError

RECURSIVE ValidReadings(_, _)
\* the value maps of the elements of es that are valid readings of channel c
ValidReadings(es, c) ==
    IF es = <<>> THEN <<>>
    ELSE LET rest == ValidReadings(SubSeq(es, 1, Len(es) - 1), c)
             e == es[Len(es)]
         IN  IF IsReadingOf(e, c) THEN Append(rest, DictGet(e, "values", JNull))
             ELSE rest

C4_ValidReadingBuffered ==
    (/\ last.op = "process_sensor_reading"
     /\ IsSensorType(last.reading.sensor_name)
     /\ CompleteNumeric(last.reading.payload, last.reading.sensor_name))
    => LET c == TypeChannel[last.reading.sensor_name.s]
           kept == IF Len(prev[c]) >= max_size THEN Tail(prev[c]) ELSE prev[c]
       IN  /\ last.exc = "none"
           /\ buf[c] = Append(kept, last.reading.payload)
           /\ \A d \in Channels \ {c} : buf[d] = prev[d]

\* a valid gravity reading arrives while other channels hold entries
C4_Witness ==
    /\ last.op = "process_sensor_reading"
    /\ last.reading.sensor_name = JStr("gravity")
    /\ CompleteNumeric(last.reading.payload, last.reading.sensor_name)
    /\ buf["gravity_data_buffer"] = <<last.reading.payload>>
    /\ buf["gyroscope_data_buffer"] # <<>>
    /\ buf["orientation_data_buffer"] # <<>>

(***************************************************************************)
(* C5: for every sensor type and every value map that lacks a required     *)
(* field of that type, validate_sensor_values fails and the error names    *)
(* the first missing field in the table's left-to-right order.             *)
(***************************************************************************)
MissingFields(values, name) ==
    {i \in 1..Len(TypeRequired[name.s]) : ~HasKey(values, TypeRequired[name.s][i])}

C5_FirstMissingFieldNamed ==
    (/\ last.op = "validate_sensor_values"
     /\ last.values.k = "dict"
     /\ MissingFields(last.values, last.name) # {})
    => last.result = [err |-> "Missing required field",
                      field |-> TypeRequired[last.name.s]
                                    [Min(MissingFields(last.values, last.name))]]

\* an orientation map that lacks qw and yaw and carries a string: qw is named
C5_Witness ==
    /\ last.op = "validate_sensor_values"
    /\ last.name = JStr("orientation")
    /\ last.values.k = "dict"
    /\ MissingFields(last.values, last.name) = {4, 7}
    /\ \E i \in 1..Len(last.values.pairs) : last.values.pairs[i].val.k = "str"
    /\ last.result.field = "qw"

(***************************************************************************)
(* C6: a value map with every required field fails validation, the error   *)
(* naming the field, when a field present (required or extra) holds a      *)
(* value that is not an integer or a floating-point number: a string, a    *)
(* boolean, null, a list or an object.  (With several such fields the      *)
(* error is to name one of them.)                                          *)
(***************************************************************************)
NonNumericFields(values) ==
    {i \in 1..Len(values.pairs) : values.pairs[i].val.k \notin {"int", "float"}}

C6_NonNumericRejected ==
    (/\ last.op = "validate_sensor_values"
     /\ last.values.k = "dict"
     /\ MissingFields(last.values, last.name) = {}
     /\ NonNumericFields(last.values) # {})
    => /\ last.result.err = "must be a number"
       /\ \E i \in NonNumericFields(last.values) :
             last.result.field = last.values.pairs[i].key

(***************************************************************************)
(* C7: whenever validation of a reading fails (the values are no mapping,  *)
(* a required field is missing, a field is not a number),                  *)
(* process_sensor_reading returns without raising and every channel holds  *)
(* what it held before the call.                                           *)
(***************************************************************************)
C7_InvalidReadingDropped ==
    (/\ last.op = "process_sensor_reading"
     /\ last.error.err # "none")
    => /\ last.exc = "none"
       /\ buf = prev

\* an invalid reading was dropped by a buffer that holds entries
C7_Witness ==
    /\ last.op = "process_sensor_reading"
    /\ last.error.err = "must be a number"
    /\ buf = prev
    /\ buf["accelerometer_data_buffer"] # <<>>

(***************************************************************************)
(* C8: a reading whose sensor name is none of the five known types is      *)
(* dropped: process_sensor_reading raises nothing, logs no validation      *)
(* error, and no channel changes.                                          *)
(***************************************************************************)
C8_UnknownTypeDropped ==
    (/\ last.op = "process_sensor_reading"
     /\ ~IsSensorType(last.reading.sensor_name))
    => /\ last.exc = "none"
       /\ last.error = NoError
       /\ buf = prev

\* an unknown sensor name with a well-formed value map, on a non-empty buffer
C8_Witness ==
    /\ last.op = "process_sensor_reading"
    /\ last.reading.sensor_name = JStr("magnetometer")
    /\ last.reading.payload = Accel1
    /\ buf["accelerometer_data_buffer"] # <<>>

(***************************************************************************)
(* C9: handle_imu_data_message rejects the whole message when the body     *)
(* lacks deviceId or when payload is not a non-empty list:                 *)
(* process_sensor_reading is called zero times and no buffer changes.      *)
(***************************************************************************)
LacksDeviceId(body) == ~HasKey(body, "deviceId")

PayloadNotNonEmptyList(body) ==
    \/ ~HasKey(body, "payload")
    \/ DictGet(body, "payload", JNull).k # "list"
    \/ DictGet(body, "payload", JNull).items = <<>>

C9_MalformedBodyRejected ==
    (/\ last.op = "on_message"
     /\ last.msg.topic = MQTT_TOPICS.data_stream
     /\ last.msg.payload.parses
     /\ last.msg.payload.json.k = "dict"
     /\ \/ LacksDeviceId(last.msg.payload.json)
        \/ PayloadNotNonEmptyList(last.msg.payload.json))
    => /\ last.calls = <<>>
       /\ buf = prev
       /\ last.log \in {"IMU data message missing 'deviceId' field",
                        "IMU data payload must be a non-empty array"}

\* a body without deviceId whose payload holds a valid reading, on a buffer
\* that holds entries
C9_Witness ==
    /\ last.op = "on_message"
    /\ last.msg.payload = Bytes(JDict(<<KV("payload", OneReading)>>))
    /\ last.calls = <<>>
    /\ buf["accelerometer_data_buffer"] # <<>>

(***************************************************************************)
(* C10: for a well-formed body every element of payload is dispatched      *)
(* independently: each object element is passed to process_sensor_reading, *)
(* in order, and an element that is no object, has an unknown sensor name  *)
(* or fails validation keeps no later element of the message from being    *)
(* validated and buffered.                                                 *)
(***************************************************************************)
RECURSIVE ObjectsOf(_)
\* the elements of es that are objects, in order
ObjectsOf(es) ==
    IF es = <<>> THEN <<>>
    ELSE LET rest == ObjectsOf(SubSeq(es, 1, Len(es) - 1)) IN
         IF es[Len(es)].k = "dict" THEN Append(rest, es[Len(es)]) ELSE rest

C10_ElementsIndependent ==
    (/\ last.op = "on_message"
     /\ IsWellFormed(last.msg))
    => LET es == PayloadItems(last.msg)
           objs == ObjectsOf(es)
       IN  /\ Len(last.calls) = Len(objs)
           /\ \A i \in 1..Len(objs) :
                 /\ last.calls[i].sensor_name = DictGet(objs[i], "name", JStr("unknown"))
                 /\ last.calls[i].payload = DictGet(objs[i], "values", JDict(<<>>))
           /\ \A c \in Channels :
                 buf[c] = LastN(prev[c] \o ValidReadings(es, c), max_size)

\* a message whose first element is dropped and whose last element is buffered
C10_Witness ==
    /\ last.op = "on_message"
    /\ IsWellFormed(last.msg)
    /\ LET es == PayloadItems(last.msg) IN
          /\ Len(es) >= 2
          /\ \A c \in Channels : ~IsReadingOf(es[1], c)
          /\ IsReadingOf(es[Len(es)], "accelerometer_data_buffer")
          /\ buf["accelerometer_data_buffer"] # prev["accelerometer_data_buffer"]

(***************************************************************************)
(* C11: every on_connect callback with a success code sets                 *)
(* connection_established to true, subscribes to exactly the three         *)
(* configured topics (recording_control, data_stream, status) and triggers *)
(* exactly one status publish.                                             *)
(***************************************************************************)
\* the calls of one method among the calls made on the transport
CallsOf(calls, fn) == SelectSeq(calls, LAMBDA c : c.fn = fn)

C11_OnConnectSuccess ==
    (last.op = "on_connect" /\ last.rc = 0)
    => LET subs == CallsOf(last.client_calls, "subscribe")
           pubs == CallsOf(last.client_calls, "publish")
       IN  /\ connection_established
           /\ Len(subs) = 3
           /\ { subs[i].topic : i \in 1..Len(subs) }
                = { MQTT_TOPICS.recording_control, MQTT_TOPICS.data_stream,
                    MQTT_TOPICS.status }
           /\ Len(pubs) = 1
           /\ pubs[1].topic = MQTT_TOPICS.status
           /\ DictGet(pubs[1].body, "mqtt_status", JNull) = JStr("connected")

\* a successful connect callback during the constructor's wait
C11_Witness ==
    /\ last.op = "on_connect"
    /\ last.rc = 0
    /\ pc = "wait"
    /\ connection_established

(***************************************************************************)
(* C12: every on_connect callback with a failure code subscribes to no     *)
(* topic, publishes nothing, leaves connection_established false, and      *)
(* makes no connect or reconnect call from within the callback.            *)
(***************************************************************************)
C12_OnConnectFailure ==
    (last.op = "on_connect" /\ last.rc # 0)
    => /\ ~connection_established
       /\ last.client_calls = <<>>
       /\ client.connects <= 1

\* a refused connection, after the one connect call of the constructor
C12_Witness ==
    /\ last.op = "on_connect"
    /\ last.rc # 0
    /\ client.connects = 1
    /\ ~connection_established

(***************************************************************************)
(* C13, as claimed: every on_disconnect callback with a non-zero reason    *)
(* code triggers exactly one call of the transport's reconnect(), and      *)
(* every on_disconnect callback with a zero reason code triggers none.     *)
(***************************************************************************)
C13_ReconnectOnEveryUnexpected ==
    last.op = "on_disconnect"
    => /\ last.rc # 0 => Len(CallsOf(last.client_calls, "reconnect")) = 1
       /\ last.rc = 0 => Len(CallsOf(last.client_calls, "reconnect")) = 0

(***************************************************************************)
(* C13, amended: an on_disconnect callback with a non-zero reason code     *)
(* triggers exactly one call of reconnect() when service_running is true   *)
(* and none when it is false; a zero reason code triggers none.            *)
(***************************************************************************)
C13_ReconnectWhileRunning ==
    last.op = "on_disconnect"
    => /\ (last.rc # 0 /\ last.running) => last.client_calls = <<CallReconnect>>
       /\ (last.rc # 0 /\ ~last.running) => last.client_calls = <<>>
       /\ last.rc = 0 => last.client_calls = <<>>
       /\ service_running = last.running

\* an unexpected disconnect of the running service, answered by one reconnect
C13_Witness ==
    /\ last.op = "on_disconnect"
    /\ last.rc # 0
    /\ last.running
    /\ Len(CallsOf(last.client_calls, "reconnect")) = 1

(***************************************************************************)
(* C14: no status record is published in a state where the transport       *)
(* reports not connected or connection_established is false:               *)
(* publish_status_update is a no-op unless both hold.                      *)
(***************************************************************************)
C14_NoStatusUnlessConnected ==
    /\ last.op = "publish_status_update"
       => /\ CallsOf(last.client_calls, "publish") # <<>>
             => (last.is_connected /\ last.established)
          /\ ~(last.is_connected /\ last.established) => last.client_calls = <<>>
    /\ (last.op = "on_connect" /\ CallsOf(last.client_calls, "publish") # <<>>)
       => (client.connected /\ connection_established)
    /\ last.op \in {"on_disconnect", "signal_handler"}
       => CallsOf(last.client_calls, "publish") = <<>>

\* the status publisher runs with the flag set while the transport is down
C14_Witness ==
    /\ last.op = "publish_status_update"
    /\ last.established
    /\ ~last.is_connected
    /\ last.client_calls = <<>>

(***************************************************************************)
(* C15: if the startup wait elapses without connection_established         *)
(* becoming true, construction ends with service_running false and the     *)
(* receive loop stopped (loop_stop called), and connect is not retried.    *)
(***************************************************************************)
C15_StartupTimeout ==
    (last.op = "__init__" /\ "step" \in DOMAIN last /\ last.step = "timeout")
    => /\ pc = "done"
       /\ ~service_running
       /\ last.client_calls = <<CallLoopStop>>
       /\ ~client.loop
       /\ client.connects = 1

\* the constructor has waited all its polls and taken the timeout branch
C15_Witness ==
    /\ last.op = "__init__"
    /\ "step" \in DOMAIN last
    /\ last.step = "timeout"
    /\ polls = MaxPolls
    /\ ~connection_established

(***************************************************************************)
(* C16, as claimed: in every reachable state, handling a termination       *)
(* signal sets service_running to false, stops the receive loop            *)
(* (loop_stop) and closes the connection (disconnect) before the process   *)
(* exits.                                                                  *)
(***************************************************************************)
C16_ShutdownStopsAndCloses ==
    last.op = "signal_handler"
    => /\ ~service_running
       /\ last.client_calls = <<CallLoopStop, CallDisconnect>>
       /\ pc = "exited"

(***************************************************************************)
(* C16, amended: handling a termination signal sets service_running to     *)
(* false and exits; it stops the receive loop and then closes the          *)
(* connection when the transport reports connected, and makes no call on   *)
(* the transport when it does not.                                         *)
(***************************************************************************)
C16_ShutdownWhenConnected ==
    last.op = "signal_handler"
    => /\ ~service_running
       /\ pc = "exited"
       /\ last.is_connected
          => /\ last.client_calls = <<CallLoopStop, CallDisconnect>>
             /\ ~client.loop
             /\ ~client.connected
       /\ ~last.is_connected => last.client_calls = <<>>

\* a signal handled while the service runs and the transport is connected
C16_Witness ==
    /\ last.op = "signal_handler"
    /\ last.is_connected
    /\ connection_established
    /\ last.client_calls = <<CallLoopStop, CallDisconnect>>

(***************************************************************************)
(* C17: a message whose body does not parse as JSON is dropped by          *)
(* on_message: every buffer is unchanged, the session stays usable (the    *)
(* callback returns, the flags and the receive loop are as before), and a  *)
(* message delivered next is processed as if the dropped one had not been  *)
(* delivered.                                                              *)
(***************************************************************************)
Unparseable == last.op = "on_message" /\ ~last.msg.payload.parses

C17_UnparseableDropped ==
    /\ [](Unparseable
          => /\ buf = prev
             /\ last.calls = <<>>
             /\ last.exc = "none"
             /\ last.log = "Invalid JSON in MQTT message"
             /\ LoopRuns)
    /\ [][(last'.op = "on_message" /\ ~last'.msg.payload.parses)
          => UNCHANGED <<buf, session>>]_vars
    /\ [][(Unparseable /\ last'.op = "on_message" /\ IsWellFormed(last'.msg))
          => /\ last'.exc = "none"
             /\ \A c \in Channels :
                   buf'[c] = LastN(prev[c] \o ValidReadings(PayloadItems(last'.msg), c),
                                   max_size)]_vars

\* an unparseable message dropped by the connected, running service while a
\* reading is buffered
C17_Witness ==
    /\ Unparseable
    /\ service_running
    /\ connection_established
    /\ buf["accelerometer_data_buffer"] # <<>>
    /\ buf = prev

(***************************************************************************)
(* C18: for every inbound message, on any topic and with any body          *)
(* (unparseable, JSON that is not an object, missing fields, non-object    *)
(* payload elements, invalid readings), on_message returns without raising *)
(* and leaves service_running and connection_established unchanged.        *)
(***************************************************************************)
C18_OnMessageContained ==
    [][last'.op = "on_message"
       => /\ last'.exc = "none"
          /\ UNCHANGED <<service_running, connection_established>>]_vars

\* a body that is JSON but not an object, delivered to the running service
C18_Witness ==
    /\ last.op = "on_message"
    /\ last.msg.payload.parses
    /\ last.msg.payload.json.k # "dict"
    /\ last.exc = "none"
    /\ service_running
    /\ connection_established

(***************************************************************************)
(* C19: for N valid accelerometer readings and M valid gyroscope readings  *)
(* with N, M <= max_size, the accelerometer channel ends with size N and   *)
(* the gyroscope channel with size M for every interleaving of the two     *)
(* streams, including when two concurrent workers deliver them; each       *)
(* channel's final contents depend only on the readings of its own type.   *)
(***************************************************************************)
\* every worker has delivered its whole stream
WorkersDone ==
    \A w \in DOMAIN workers :
        workers[w].pc = "idle" /\ workers[w].next > Len(workers[w].stream)

\* the values of the readings of sensor name in the streams of all workers,
\* worker by worker
RECURSIVE StreamValues(_, _)
StreamValues(name, w) ==
    IF w = 0 THEN <<>>
    ELSE LET own == SelectSeq(workers[w].stream, LAMBDA r : r.sensor_name = name)
         IN  StreamValues(name, w - 1) \o [i \in 1..Len(own) |-> own[i].payload]

C19_ChannelsIndependent ==
    LET accelerometer == StreamValues(JStr("accelerometer"), Len(workers))
        gyroscope == StreamValues(JStr("gyroscope"), Len(workers))
    IN  (/\ workers # <<>>
         /\ WorkersDone
         /\ Len(accelerometer) <= max_size
         /\ Len(gyroscope) <= max_size)
        => /\ Len(buf["accelerometer_data_buffer"]) = Len(accelerometer)
           /\ Len(buf["gyroscope_data_buffer"]) = Len(gyroscope)
           /\ buf["accelerometer_data_buffer"] = accelerometer
           /\ buf["gyroscope_data_buffer"] = gyroscope
           /\ \A w \in DOMAIN workers : workers[w].exc = "none"

\* both workers have delivered max_size readings each
C19_Witness ==
    /\ workers # <<>>
    /\ WorkersDone
    /\ max_size = MaxSize
    /\ Len(buf["accelerometer_data_buffer"]) = max_size
    /\ Len(buf["gyroscope_data_buffer"]) = max_size
    /\ buf["accelerometer_data_buffer"] # buf["gyroscope_data_buffer"]

(***************************************************************************)
(* C20: the dictionary obtained from get_data is an immutable copy of the  *)
(* contents at the time of the call: what it holds is unchanged by any     *)
(* later push, eviction or clear on the buffer.                            *)
(***************************************************************************)
C20_SnapshotUnchanged ==
    snapshot.taken => Contents(snapshot.data) = snapshot.at_call

(***************************************************************************)
(* C21: a max_size of zero or a negative max_size is a configuration       *)
(* error: constructing the buffer with such a value is rejected, so that   *)
(* no buffer with max_size below one exists.                               *)
(***************************************************************************)
C21_NonPositiveSizeRejected ==
    /\ (last.op = "__init__" /\ "max_buffer_size" \in DOMAIN last
        /\ last.max_buffer_size <= 0)
       => last.exc # "none"
    /\ max_size >= 1

(***************************************************************************)
(* C22: from any reachable buffer state, clear() leaves all five channels  *)
(* empty and max_size unchanged, and a push made after clear has the       *)
(* outcome it has on a freshly constructed buffer.                         *)
(***************************************************************************)
C22_ClearEmptiesAll ==
    /\ [](last.op = "clear" => \A c \in Channels : buf[c] = <<>>)
    /\ [][last'.op = "clear" => max_size' = max_size]_vars
    /\ [][(last.op = "clear" /\ last'.op = "process_sensor_reading")
          => LET fresh == process_sensor_reading(IMUBuffer(max_size).bufs,
                                                 last'.reading)
             IN  /\ buf' = fresh.bufs
                 /\ last'.exc = fresh.exc
                 /\ last'.error = fresh.error]_vars
    /\ [][(last.op = "clear" /\ last'.op = "add_to_buffer")
          => buf' = [IMUBuffer(max_size).bufs EXCEPT ![last'.channel] = <<last'.data>>]]_vars

\* clear called on a buffer with a full channel and another channel in use
C22_Witness ==
    /\ last.op = "clear"
    /\ Len(prev["accelerometer_data_buffer"]) = max_size
    /\ prev["orientation_data_buffer"] # <<>>
    /\ buf = EmptyBuffers

(***************************************************************************)
(* C23, as claimed: after a construction of MQTTBroker in which the        *)
(* transport's connect call returns without raising, service_running is    *)
(* true, connect has been called exactly once with (host, port, 60) and    *)
(* loop_start exactly once.                                                *)
(***************************************************************************)
\* the constructor has just returned, and its connect call had returned
ConstructedAfterConnect ==
    /\ last.op = "__init__"
    /\ pc = "done"
    /\ client.loop_starts >= 1

ConnectRaised == client.connects >= 1 /\ client.loop_starts = 0

C24_ConnectFailureContained ==
    /\ (last.op = "__init__" /\ "step" \in DOMAIN last /\ last.step = "connect")
       => last.exc = "none"
    /\ ConnectRaised
       => /\ pc \in {"done", "exited"}
          /\ ~service_running
          /\ ~connection_established
          /\ current_recording_state = "idle"
          /\ ~client.loop

\* the constructor has returned from the except branch
C24_Witness ==
    /\ last.op = "__init__"
    /\ "step" \in DOMAIN last
    /\ last.step = "connect"
    /\ last.caught = "Exception"
    /\ pc = "done"
    /\ ~service_running

(***************************************************************************)
(* C25, as claimed: IMUMessageHandler.handle_message on the data-stream    *)
(* topic raises RuntimeError to its caller for every malformed body        *)
(* (payload missing, payload not a list, payload an empty list, or a       *)
(* payload entry lacking 'name'), and buffers that were empty remain       *)
(* empty.                                                                  *)
(***************************************************************************)
\* the body has no payload list with at least one entry
HasNoList(body) == PayloadNotNonEmptyList(body)

\* the entry is an object with both keys, the shape the loop goes on from
HasNameAndValues(e) == e.k = "dict" /\ HasKey(e, "name") /\ HasKey(e, "values")

\* some entry of the payload list is an object without 'name'
HasEntryLackingName(body) ==
    /\ ~HasNoList(body)
    /\ \E i \in DOMAIN DictGet(body, "payload", JNull).items :
          LET e == DictGet(body, "payload", JNull).items[i] IN
          e.k = "dict" /\ ~HasKey(e, "name")

\* handle_message was called, the orchestrator ready, with a malformed body
MalformedHandled ==
    /\ last.op = "handle_message"
    /\ last.topic = MQTT_TOPICS.data_stream
    /\ last.status = "ready"
    /\ last.payload.k = "dict"
    /\ HasNoList(last.payload) \/ HasEntryLackingName(last.payload)

BeforeFirstBad(items) ==
    LET bad == { i \in DOMAIN items : ~HasNameAndValues(items[i]) } IN
    IF bad = {} THEN items ELSE SubSeq(items, 1, Min(bad) - 1)

IsOldShape(msg) ==
    /\ IsWellFormed(msg)
    /\ HasKey(msg.payload.json, "name")
    /\ IsSensorType(DictGet(msg.payload.json, "name", JNull))
    /\ \A i \in DOMAIN PayloadItems(msg) :
          LET e == PayloadItems(msg)[i] IN
          e.k = "dict" /\ ~HasKey(e, "name") /\ ~HasKey(e, "values")

OldShapeDelivered == last.op = "on_message" /\ IsOldShape(last.msg)

ShutdownBegun == pc \in {"grace", "exited"}

(***************************************************************************)
(* C27: shutdown is one-way: once signal_handler has set service_running   *)
(* to false it is never true again, and no on_disconnect callback that     *)
(* runs afterwards, whatever its reason code, calls reconnect().           *)
(***************************************************************************)
C27_ShutdownOneWay ==
    /\ [](ShutdownBegun => ~service_running)
    /\ [][ShutdownBegun => ShutdownBegun' /\ ~service_running']_vars
    /\ []((ShutdownBegun /\ last.op = "on_disconnect")
          => CallsOf(last.client_calls, "reconnect") = <<>>)

\* an unexpected disconnection delivered while signal_handler sleeps, and no
\* reconnection attempted
C27_Witness ==
    /\ pc = "grace"
    /\ last.op = "on_disconnect"
    /\ last.rc # 0
    /\ ~service_running
    /\ last.client_calls = <<>>

(***************************************************************************)
(* C28: when the reconnect() called from on_disconnect raises, nothing is  *)
(* escalated: on_disconnect returns normally, service_running keeps its    *)
(* value, connection_established is false, that one reconnect() is the     *)
(* only one of the callback, and nothing but an on_disconnect callback     *)
(* calls reconnect().                                                      *)
(***************************************************************************)
C28_ReconnectFailureContained ==
    /\ (last.op = "on_disconnect" /\ last.reconnect_raised)
       => /\ last.exc = "none"
          /\ service_running = last.running
          /\ ~connection_established
          /\ Len(CallsOf(last.client_calls, "reconnect")) = 1
          /\ last.log = "Unexpected MQTT disconnection"
    /\ (last.op # "on_disconnect" /\ "client_calls" \in DOMAIN last)
       => CallsOf(last.client_calls, "reconnect") = <<>>

\* an on_disconnect callback whose reconnect() raised
C28_Witness ==
    /\ last.op = "on_disconnect"
    /\ last.reconnect_raised
    /\ last.running
    /\ last.rc # 0

(***************************************************************************)
(* C29: every on_disconnect callback, whatever its reason code, leaves     *)
(* connection_established false; the flag becomes true again only by an    *)
(* on_connect callback with reason code 0, and no status record is         *)
(* published while it is false.                                            *)
(***************************************************************************)
C29_DisconnectClearsFlag ==
    /\ [](last.op = "on_disconnect" => ~connection_established)
    /\ [][(~connection_established /\ connection_established')
           => (last'.op = "on_connect" /\ last'.rc = 0)]_vars
    /\ []((~connection_established /\ "client_calls" \in DOMAIN last)
          => CallsOf(last.client_calls, "publish") = <<>>)

\* a disconnection with reason code 0 of an established session
C29_Witness ==
    /\ last.op = "on_disconnect"
    /\ last.rc = 0
    /\ last.established
    /\ ~connection_established

(***************************************************************************)
(* C30: mutations are serialized per channel: when two workers call        *)
(* process_sensor_reading concurrently for the same sensor type, the       *)
(* length of the channel never exceeds max_size, in any interleaving of    *)
(* their length test, pop and append steps.                                *)
(***************************************************************************)
C30_NeverOverCapacity ==
    workers # <<>> => \A c \in DOMAIN buf : Len(buf[c]) <= max_size

\* the length of a list after n completed pushes into it
SizeAfter(n) == IF n < max_size THEN n ELSE max_size

(***************************************************************************)
(* C31: a reader of get_current_buffer_size never observes a torn write:   *)
(* with one writer per channel, the size it reads for a channel is the     *)
(* size after the pushes completed so far, never the size of a full        *)
(* channel whose oldest entry is evicted and whose new entry is not yet    *)
(* appended.                                                               *)
(***************************************************************************)
C31_NoTornRead ==
    "sizes" \in DOMAIN snapshot
    => /\ snapshot.sizes.accelerometer = SizeAfter(snapshot.complete[1])
       /\ snapshot.sizes.gyroscope = SizeAfter(snapshot.complete[2])

\* the constructor has taken the timeout branch and has just stopped the loop
TimedOut ==
    /\ last.op = "__init__"
    /\ "step" \in DOMAIN last
    /\ last.step = "timeout"

(***************************************************************************)
(* C32: in every interleaving of on_connect with the wait loop of the      *)
(* constructor, when construction ends on the timeout branch with          *)
(* service_running false, connection_established is false and no topic     *)
(* has been subscribed at the moment the receive loop is stopped.          *)
(***************************************************************************)
C32_TimeoutNotEstablished ==
    (TimedOut /\ ~service_running)
    => /\ ~connection_established
       /\ client.subscribed = {}

\* the thread that constructs the broker is still inside __init__
Constructing == pc \in {"connect", "wait", "check", "stop"}

(***************************************************************************)
(* C33: the connect operation always terminates: the wait of the           *)
(* constructor on connection_established is bounded by the timeout, so     *)
(* construction eventually returns whether or not on_connect ever runs,    *)
(* given that the constructing thread is scheduled and its clock advances. *)
(***************************************************************************)
C33_ConnectTerminates == <>(~Constructing)

\* construction has returned by the timeout, on_connect never having run
C33_Witness ==
    /\ TimedOut
    /\ pc = "done"
    /\ polls = MaxPolls
    /\ ~client.connected
    /\ client.subscribed = {}
    /\ ~connection_established

\* handle_message has been called on the data-stream topic with the
\* orchestrator ready
DataStreamHandled ==
    /\ last.op = "handle_message"
    /\ last.topic = MQTT_TOPICS.data_stream
    /\ last.status = "ready"

(***************************************************************************)
(* C34: IMUMessageHandler rejects wholesale a data-stream body that lacks  *)
(* deviceId: no reading is dispatched to the buffer and every channel is   *)
(* unchanged.                                                              *)
(***************************************************************************)
C34_NoDeviceIdRejected ==
    (/\ DataStreamHandled
     /\ last.payload.k = "dict"
     /\ ~HasKey(last.payload, "deviceId"))
    => /\ last.calls = <<>>
       /\ buf = prev

(***************************************************************************)
(* C35: handle_data_processing dispatches every element of a non-empty     *)
(* payload list independently: an element that fails (no 'name', no        *)
(* 'values', or invalid values) does not keep the later elements of the    *)
(* message from being buffered, so each channel receives every valid       *)
(* reading of the message, in list order.                                  *)
(***************************************************************************)
C35_HandlerElementsIndependent ==
    (/\ DataStreamHandled
     /\ last.payload.k = "dict"
     /\ ~HasNoList(last.payload))
    => LET es == PayloadItems([payload |-> [json |-> last.payload]]) IN
       \A c \in Channels :
          buf[c] = LastN(prev[c] \o ValidReadings(es, c), max_size)

(***************************************************************************)
(* C36: handle_message buffers the readings of a data-stream message only  *)
(* when the orchestrator status reports is_ready: when the status is not   *)
(* ready or the status call fails, handle_message returns without raising, *)
(* dispatches nothing and leaves every buffer unchanged.                   *)
(***************************************************************************)
C36_OnlyWhenReady ==
    (last.op = "handle_message" /\ last.topic = MQTT_TOPICS.data_stream)
    => /\ last.status # "ready"
          => /\ last.exc = "none"
             /\ last.calls = <<>>
             /\ buf = prev
       /\ last.status = "raises" => last.caught = "Exception"
       /\ (last.calls # <<>> \/ buf # prev) => last.status = "ready"

\* a valid reading delivered while the orchestrator is not ready, after one
\* that was buffered
C36_Witness ==
    /\ last.op = "handle_message"
    /\ last.topic = MQTT_TOPICS.data_stream
    /\ last.status = "not ready"
    /\ last.payload = Body(JStr("d1"), OneReading)
    /\ buf = prev
    /\ buf # EmptyBuffers

\* IMUMessageHandler.__init__ has returned or raised
HandlerInitOver == handler.pc \in {"constructed", "raised"}

(***************************************************************************)
(* C37, as claimed: construction of IMUMessageHandler ends after at most   *)
(* 10 health checks; it succeeds whenever one of the checks of the loop    *)
(* reports the orchestrator healthy, and raises RuntimeError when none of  *)
(* them does.                                                              *)
(***************************************************************************)
C37_TenChecksDecide ==
    LET found == \E i \in DOMAIN handler.loop_checks : handler.loop_checks[i] IN
    HandlerInitOver
    => /\ Len(handler.loop_checks) + Len(handler.final_checks) <= retries
       /\ found => handler.pc = "constructed"
       /\ ~found => (handler.pc = "raised" /\ handler.exc = "RuntimeError")

(***************************************************************************)
(* C37, amended: construction of IMUMessageHandler ends after at most 10   *)
(* health checks in its loop, which stops at the first healthy one, and    *)
(* one more check after the loop: at most 11.  The outcome is that of the  *)
(* last check alone: construction succeeds when it reports healthy and     *)
(* raises RuntimeError when it does not, whatever the loop has seen.       *)
(***************************************************************************)
C37_LastCheckDecides ==
    /\ handler.pc # "none"
       => /\ Len(handler.loop_checks) <= retries
          /\ \A i \in DOMAIN handler.loop_checks :
                handler.loop_checks[i] => i = Len(handler.loop_checks)
          /\ Len(handler.final_checks) = IF HandlerInitOver THEN 1 ELSE 0
    /\ HandlerInitOver
       => /\ handler.final_checks[1] <=> handler.pc = "constructed"
          /\ ~handler.final_checks[1]
             <=> (handler.pc = "raised" /\ handler.exc = "RuntimeError")
          /\ handler.pc = "constructed" => handler.exc = "none"
          /\ \/ handler.loop_checks[Len(handler.loop_checks)]
             \/ Len(handler.loop_checks) = retries

\* ten unhealthy checks in the loop, then a healthy one: constructed
C37_Witness ==
    /\ handler.pc = "constructed"
    /\ Len(handler.loop_checks) = retries
    /\ \A i \in DOMAIN handler.loop_checks : ~handler.loop_checks[i]
    /\ handler.final_checks = <<TRUE>>

\* a message was received on a topic other than the data-stream topic, by
\* on_message of the broker or by handle_message of the handler
OtherTopicReceived ==
    \/ last.op = "on_message" /\ last.msg.topic # MQTT_TOPICS.data_stream
    \/ last.op = "handle_message" /\ last.topic # MQTT_TOPICS.data_stream

(***************************************************************************)
(* C38: a message received on a topic other than the configured            *)
(* data-stream topic (recording-control, status or any other) never        *)
(* changes any buffer, whatever its body: no reading is dispatched and     *)
(* nothing is raised.                                                      *)
(***************************************************************************)
C38_OtherTopicsIgnored ==
    OtherTopicReceived
    => /\ buf = prev
       /\ last.calls = <<>>
       /\ last.exc = "none"

\* a body that the data-stream topic would buffer arrives on the
\* recording-control topic while the accelerometer channel holds a reading
C38_Witness ==
    /\ last.op = "on_message"
    /\ last.msg.topic = MQTT_TOPICS.recording_control
    /\ last.msg.payload = Bytes(Body(JStr("d1"), OneReading))
    /\ buf["accelerometer_data_buffer"] # <<>>
    /\ buf = prev

\* the status records published by the last call
PublishedRecords ==
    IF "client_calls" \in DOMAIN last
    THEN LET pubs == CallsOf(last.client_calls, "publish") IN
         { pubs[i].body : i \in DOMAIN pubs }
    ELSE {}

(***************************************************************************)
(* C39: current_recording_state is idle in every reachable state of the    *)
(* session: no callback, message or shutdown path changes it, and every    *)
(* status record published reports recording_state idle.                   *)
(***************************************************************************)
C39_AlwaysIdle ==
    /\ current_recording_state = "idle"
    /\ \A record \in PublishedRecords :
          DictGet(record, "recording_state", JNull) = JStr("idle")

\* a status record published by on_connect, after a shutdown signal
C39_Witness ==
    /\ last.op = "on_connect"
    /\ pc = "grace"
    /\ PublishedRecords = {status_record("idle")}
    /\ current_recording_state = "idle"

(***************************************************************************)
(* C40: when a termination signal is handled while the transport is        *)
(* connected, signal_handler publishes a shutdown announcement before it   *)
(* stops the receive loop and disconnects.                                 *)
(***************************************************************************)
C40_ShutdownAnnounced ==
    (last.op = "signal_handler" /\ last.is_connected)
    => /\ Len(last.client_calls) >= 3
       /\ last.client_calls[1].fn = "publish"
       /\ CallsOf(last.client_calls, "loop_stop") # <<>>
       /\ CallsOf(last.client_calls, "disconnect") # <<>>

=============================================================================
